---------------------------- MODULE Spec2Model ----------------------------
(***************************************************************************)
(* A model of the signal-generation pipeline of aish_bot: the technical   *)
(* indicators (src/utils/indicators.py), the support/resistance levels    *)
(* (src/utils/sr_levels.py), the order-book analyzer                      *)
(* (src/utils/orderbook.py) and the three per-asset strategies            *)
(* (src/strategies/*.py).                                                 *)
(*                                                                         *)
(* The program keeps no state between calls: every operation is a pure    *)
(* function of its arguments.  A behaviour of the model is therefore one  *)
(* call: the initial state holds the function to call and its arguments   *)
(* (pc = "call"), and the function's action stores the result              *)
(* (pc = "done").                                                          *)
(*                                                                         *)
(* Numbers.  Python floats are modelled as integers in a fixed-point      *)
(* unit that each operator names (cents, 1e-4 units, ...), with exact     *)
(* rational arithmetic up to the place where the code rounds, and with    *)
(* one distinguished value NaN that every arithmetic operation            *)
(* propagates and every comparison answers FALSE on, as IEEE-754 does.    *)
(***************************************************************************)
EXTENDS Integers, Sequences, FiniteSets, TLC

VARIABLES pc, fn, args, res

vars == <<pc, fn, args, res>>

(***************************************************************************)
(* Floating-point helpers                                                  *)
(***************************************************************************)

\* np.nan / float('nan'): a value outside every range the model draws from
NaN == -999999999

IsNaN(x) == x = NaN

Abs(x) == IF x < 0 THEN 0 - x ELSE x

Max2(a, b) == IF a >= b THEN a ELSE b

Min2(a, b) == IF a <= b THEN a ELSE b

\* Python's round(): a / b (b > 0) rounded to the nearest integer, ties to even
RoundDiv(a, b) ==
    LET q == a \div b
        r == a % b
    IN  IF 2 * r < b THEN q
        ELSE IF 2 * r > b THEN q + 1
        ELSE IF q % 2 = 0 THEN q ELSE q + 1

RECURSIVE GCD(_, _)
GCD(a, b) == IF b = 0 THEN a ELSE GCD(b, a % b)

\* round(whole + num / den) for 0 <= num < den, ties to even
RoundParts(whole, num, den) ==
    IF 2 * num < den THEN whole
    ELSE IF 2 * num > den THEN whole + 1
    ELSE IF whole % 2 = 0 THEN whole ELSE whole + 1

\* round(a * n / m) for m > 0, n >= 0, exactly: the fraction n / m is reduced
\* and a is split by the denominator so that no product leaves the model
\* checker's 32-bit integers
MulDivRound(a, n, m) ==
    LET g == GCD(n, m)
        n1 == n \div g
        m1 == m \div g
        num == (a % m1) * n1
    IN  RoundParts((a \div m1) * n1 + num \div m1, num % m1, m1)

\* a * n > b * m for n, m >= 0 not both 0, with n : m reduced first
ProductGreater(a, n, b, m) ==
    LET g == GCD(n, m)
    IN  a * (n \div g) > b * (m \div g)

\* the set of all sequences over S of length 0..n
SeqsUpTo(S, n) == UNION {[1..k -> S] : k \in 0..n}

\* the result of a call that has not been made yet
NoResult == [kind |-> "pending"]

(***************************************************************************)
(* Sequences of floats, and the pandas operations the indicators use       *)
(***************************************************************************)

\* one fixed-point unit: the value 1.0 of a price or of an indicator
Unit == 1000

RECURSIVE SumRange(_, _, _)
\* s[lo] + ... + s[hi]
SumRange(s, lo, hi) == IF lo > hi THEN 0 ELSE s[hi] + SumRange(s, lo, hi - 1)

RECURSIVE ISqrtBetween(_, _, _)
\* the largest r in lo..hi with r * r <= n (lo * lo <= n)
ISqrtBetween(n, lo, hi) ==
    IF lo >= hi THEN lo
    ELSE LET mid == (lo + hi + 1) \div 2
         IN  IF mid * mid <= n THEN ISqrtBetween(n, mid, hi)
                               ELSE ISqrtBetween(n, lo, mid - 1)

\* the square root, rounded down (n < 2^30)
ISqrt(n) == ISqrtBetween(n, 0, 32767)

Const(n, v) == [i \in 1..n |-> v]

AnyNaN(s, lo, hi) == \E j \in lo..hi : IsNaN(s[j])

HasNaN(s) == AnyNaN(s, 1, Len(s))

\* Series.rolling(window=w).mean(): undefined until w values are in the window
RollingMean(s, w) ==
    [i \in 1..Len(s) |->
        IF i < w \/ AnyNaN(s, i - w + 1, i) THEN NaN
        ELSE RoundDiv(SumRange(s, i - w + 1, i), w)]

\* Series.rolling(window=w).std(): the sample deviation (ddof = 1), undefined
\* for a window of one value
RollingStd(s, w) ==
    [i \in 1..Len(s) |->
        IF i < w \/ w < 2 \/ AnyNaN(s, i - w + 1, i) THEN NaN
        ELSE LET sum == SumRange(s, i - w + 1, i)
                 sq == SumRange([j \in 1..Len(s) |-> s[j] * s[j]], i - w + 1, i)
             IN  ISqrt((w * sq - sum * sum) \div (w * (w - 1)))]

RollingMin(s, w) ==
    [i \in 1..Len(s) |->
        IF i < w \/ AnyNaN(s, i - w + 1, i) THEN NaN
        ELSE CHOOSE m \in {s[j] : j \in (i - w + 1)..i} :
                 \A j \in (i - w + 1)..i : m <= s[j]]

RollingMax(s, w) ==
    [i \in 1..Len(s) |->
        IF i < w \/ AnyNaN(s, i - w + 1, i) THEN NaN
        ELSE CHOOSE m \in {s[j] : j \in (i - w + 1)..i} :
                 \A j \in (i - w + 1)..i : m >= s[j]]

\* Series.fillna(v)
FillNa(s, v) == [i \in 1..Len(s) |-> IF IsNaN(s[i]) THEN v ELSE s[i]]

\* Series.fillna(method='bfill'): the next defined value, if there is one
BFill(s) ==
    [i \in 1..Len(s) |->
        IF \E j \in i..Len(s) : ~IsNaN(s[j])
        THEN s[CHOOSE j \in i..Len(s) :
                   ~IsNaN(s[j]) /\ \A k \in i..(j - 1) : IsNaN(s[k])]
        ELSE NaN]

\* Series.mean(): over the defined values, NaN when there is none
MeanSkipNa(s) ==
    LET defined == {i \in 1..Len(s) : ~IsNaN(s[i])}
    IN  IF defined = {} THEN NaN
        ELSE RoundDiv(SumRange(FillNa(s, 0), 1, Len(s)), Cardinality(defined))

\* a Series aligned to an index of n rows: the rows it lacks are NaN
Reindex(s, n) == [i \in 1..n |-> IF i <= Len(s) THEN s[i] ELSE NaN]

\* Series.shift(): row i holds the value of row i - 1
Shift(s) == [i \in 1..Len(s) |-> IF i = 1 THEN NaN ELSE s[i - 1]]

FSub(a, b) == IF IsNaN(a) \/ IsNaN(b) THEN NaN ELSE a - b

FAdd(a, b) == IF IsNaN(a) \/ IsNaN(b) THEN NaN ELSE a + b

FAbs(a) == IF IsNaN(a) THEN NaN ELSE Abs(a)

\* DataFrame.max(axis=1) of one row: the largest defined value, NaN when none
RowMax(row) ==
    LET defined == {row[j] : j \in DOMAIN row} \ {NaN}
    IN  IF defined = {} THEN NaN
        ELSE CHOOSE m \in defined : \A x \in defined : m >= x

\* Series.ewm(span=span, adjust=False).mean()
RECURSIVE EwmRecursive(_, _, _)
EwmRecursive(s, span, i) ==
    IF i = 1 THEN s[1]
    ELSE RoundDiv((span - 1) * EwmRecursive(s, span, i - 1) + 2 * s[i], span + 1)

EwmNoAdjust(s, span) == [i \in 1..Len(s) |-> EwmRecursive(s, span, i)]

\* Series.ewm(span=span).mean() (adjust=True): the weighted mean of s[1..i]
\* with weights ((span - 1)/(span + 1))^(i - j), as EwmNum / EwmDen; both
\* carry the factor (span + 1)^(i - 1)
RECURSIVE Pow(_, _)
Pow(b, e) == IF e = 0 THEN 1 ELSE b * Pow(b, e - 1)

RECURSIVE EwmNum(_, _, _)
EwmNum(s, span, i) ==
    IF i = 1 THEN s[1]
    ELSE Pow(span + 1, i - 1) * s[i] + (span - 1) * EwmNum(s, span, i - 1)

EwmAdjust(s, span) ==
    [i \in 1..Len(s) |->
        RoundDiv(EwmNum(s, span, i), EwmNum(Const(Len(s), 1), span, i))]

(***************************************************************************)
(* TechnicalIndicators (src/utils/indicators.py)                           *)
(*   a price series is a sequence of fixed-point numbers (Unit = 1.0);     *)
(*   RSI and Stochastic-RSI values are in the same unit (50.0 = 50 * Unit) *)
(*                                                                         *)
(* `pandas` names the installed pandas: "legacy" accepts                   *)
(* Series.fillna(method='bfill'), "v3" (pandas 3.0 and later) raises       *)
(* TypeError on it, which sends bollinger_bands and atr to their except    *)
(* branches.  The repository pins no version.                              *)
(***************************************************************************)

PandasVersions == {"legacy", "v3"}

ema(data, period) ==
    IF Len(data) < period
    THEN Const(Len(data), NaN)
    ELSE EwmNoAdjust(data, period)

\* delta = df.diff()
Diff(data) ==
    [i \in 1..Len(data) |-> IF i = 1 THEN NaN ELSE data[i] - data[i - 1]]

\* rs = gain / loss.replace(0, np.inf), for one row
RelativeStrength(gain, loss) ==
    IF IsNaN(gain) \/ IsNaN(loss) THEN NaN
    ELSE IF loss = 0 THEN 0              \* gain / inf
    ELSE RoundDiv(gain * Unit, loss)

\* the same function without rsi.fillna(50.0)
rsi_nofill(data, period) ==
    IF Len(data) < period + 1
    THEN Const(Len(data), 50 * Unit)
    ELSE LET delta == Diff(data)
             gain == RollingMean([i \in 1..Len(data) |->
                         IF ~IsNaN(delta[i]) /\ delta[i] > 0 THEN delta[i] ELSE 0],
                         period)
             loss == RollingMean([i \in 1..Len(data) |->
                         IF ~IsNaN(delta[i]) /\ delta[i] < 0 THEN 0 - delta[i] ELSE 0],
                         period)
         IN  [i \in 1..Len(data) |->
                 LET rs == RelativeStrength(gain[i], loss[i])
                 IN  IF IsNaN(rs) THEN NaN
                     ELSE 100 * Unit - RoundDiv(100 * Unit * Unit, Unit + rs)]

rsi(data, period) ==
    IF Len(data) < period + 1
    THEN Const(Len(data), 50 * Unit)
    ELSE LET delta == Diff(data)
             \* gain = (delta.where(delta > 0, 0)).rolling(window=period).mean()
             gain == RollingMean([i \in 1..Len(data) |->
                         IF ~IsNaN(delta[i]) /\ delta[i] > 0 THEN delta[i] ELSE 0],
                         period)
             \* loss = (-delta.where(delta < 0, 0)).rolling(window=period).mean()
             loss == RollingMean([i \in 1..Len(data) |->
                         IF ~IsNaN(delta[i]) /\ delta[i] < 0 THEN 0 - delta[i] ELSE 0],
                         period)
             \* rsi = 100 - (100 / (1 + rs))
             raw == [i \in 1..Len(data) |->
                        LET rs == RelativeStrength(gain[i], loss[i])
                        IN  IF IsNaN(rs) THEN NaN
                            ELSE 100 * Unit - RoundDiv(100 * Unit * Unit, Unit + rs)]
         IN  FillNa(raw, 50 * Unit)

MacdRecord(line, sig, hist) == [macd |-> line, signal |-> sig, hist |-> hist]

macd(data, fast, slow, signal) ==
    IF Len(data) < slow
    THEN MacdRecord(Const(Len(data), 0), Const(Len(data), 0), Const(Len(data), 0))
    ELSE LET ema_fast == EwmAdjust(data, fast)
             ema_slow == EwmAdjust(data, slow)
             macd_line == [i \in 1..Len(data) |-> FSub(ema_fast[i], ema_slow[i])]
             signal_line == EwmAdjust(macd_line, signal)
             histogram == [i \in 1..Len(data) |-> FSub(macd_line[i], signal_line[i])]
         IN  MacdRecord(FillNa(macd_line, 0), FillNa(signal_line, 0),
                        FillNa(histogram, 0))

BandRecord(upper, middle, lower) ==
    [upper |-> upper, middle |-> middle, lower |-> lower]

bollinger_bands(data, period, std, pandas) ==
    IF Len(data) < period
    THEN BandRecord(data, data, data)
    ELSE IF pandas = "v3"
    THEN \* fillna(method='bfill') raises: except -> data.copy() three times
         BandRecord(data, data, data)
    ELSE LET middle == RollingMean(data, period)
             std_dev == RollingStd(data, period)
             upper == [i \in 1..Len(data) |->
                          IF IsNaN(std_dev[i]) THEN NaN
                          ELSE FAdd(middle[i], std_dev[i] * std)]
             lower == [i \in 1..Len(data) |->
                          IF IsNaN(std_dev[i]) THEN NaN
                          ELSE FSub(middle[i], std_dev[i] * std)]
             last == data[Len(data)]
         IN  BandRecord(FillNa(BFill(upper), RoundDiv(last * 102, 100)),
                        FillNa(BFill(middle), last),
                        FillNa(BFill(lower), RoundDiv(last * 98, 100)))

\* avg_range = sum(h - l for h, l in zip(high, low)) / len(high)
\*             if high and low else 100
AvgRange(high, low) ==
    IF Len(high) > 0 /\ Len(low) > 0
    THEN RoundDiv(SumRange([i \in 1..Min2(Len(high), Len(low)) |-> high[i] - low[i]],
                           1, Min2(Len(high), Len(low))),
                  Len(high))
    ELSE 100 * Unit

\* true_range = pd.concat([tr1, tr2, tr3], axis=1).max(axis=1), over the
\* union of the three indexes
TrueRange(high, low, close) ==
    LET n == Max2(Len(high), Max2(Len(low), Len(close)))
        h == Reindex(high, n)
        l == Reindex(low, n)
        prev == Reindex(Shift(close), n)
    IN  [i \in 1..n |->
            RowMax(<<FSub(h[i], l[i]),
                     FAbs(FSub(h[i], prev[i])),
                     FAbs(FSub(l[i], prev[i]))>>)]

atr(high, low, close, period, pandas) ==
    IF Len(high) < period + 1
    THEN Const(Len(high), AvgRange(high, low))
    ELSE IF pandas = "v3"
    THEN \* fillna(method='bfill') raises: except -> the average range
         Const(Len(high), AvgRange(high, low))
    ELSE LET true_range == TrueRange(high, low, close)
         IN  FillNa(BFill(RollingMean(true_range, period)), MeanSkipNa(true_range))

vwap(high, low, close, volume) ==
    IF Len(close) # Len(volume) \/ Len(close) = 0
    THEN close
    ELSE LET \* typical_price = [(h + l + c) / 3 for h, l, c in zip(high, low, close)]
             nTypical == Min2(Len(high), Min2(Len(low), Len(close)))
             \* pv = [tp * v for tp, v in zip(typical_price, volume)], times 3
             nPv == Min2(nTypical, Len(volume))
             pv3 == [i \in 1..nPv |-> (high[i] + low[i] + close[i]) * volume[i]]
         IN  \* for i in range(len(pv)): one value appended per round
             [i \in 1..nPv |->
                 IF SumRange(volume, 1, i) > 0
                 THEN RoundDiv(SumRange(pv3, 1, i), 3 * SumRange(volume, 1, i))
                 ELSE close[i]]

StochRecord(k, d) == [k |-> k, d |-> d]

stochastic_rsi(data, period, k_period, d_period) ==
    LET rsi_values == rsi(data, period)
    IN  IF Len(rsi_values) < period
        THEN StochRecord(Const(Len(data), 50 * Unit), Const(Len(data), 50 * Unit))
        ELSE LET lowest_rsi == RollingMin(rsi_values, period)
                 highest_rsi == RollingMax(rsi_values, period)
                 \* rsi_range.replace(0, 100)
                 rsi_range == [i \in 1..Len(data) |->
                                  LET r == FSub(highest_rsi[i], lowest_rsi[i])
                                  IN  IF r = 0 THEN 100 * Unit ELSE r]
                 k_percent == [i \in 1..Len(data) |->
                                  IF IsNaN(rsi_range[i]) THEN NaN
                                  ELSE 100 * RoundDiv((rsi_values[i] - lowest_rsi[i]) * Unit,
                                                      rsi_range[i])]
                 k_smoothed == RollingMean(k_percent, k_period)
                 d_smoothed == RollingMean(k_smoothed, d_period)
             IN  StochRecord(FillNa(k_smoothed, 50 * Unit), FillNa(d_smoothed, 50 * Unit))

RECURSIVE ObvAt(_, _, _)
\* the value appended in round i of the loop (obv = [0] before it)
ObvAt(close, volume, i) ==
    IF i = 1 THEN 0
    ELSE IF close[i] > close[i - 1] THEN ObvAt(close, volume, i - 1) + volume[i]
    ELSE IF close[i] < close[i - 1] THEN ObvAt(close, volume, i - 1) - volume[i]
    ELSE ObvAt(close, volume, i - 1)

obv(close, volume) ==
    IF Len(close) # Len(volume) \/ Len(close) < 2
    THEN Const(Len(close), 0)
    ELSE [i \in 1..Len(close) |-> ObvAt(close, volume, i)]

(***************************************************************************)
(* The indicator calls the model makes                                     *)
(***************************************************************************)

\* a single price series has 0 .. MaxLen values
MaxLen == 4

\* high, low, close and volume have 0 .. MaxLenMulti values each
MaxLenMulti == 3

\* periods (spans, windows) range over 1 .. MaxPeriod
MaxPeriod == 3

IndVals == {Unit, 2 * Unit}

Periods == 1..MaxPeriod

SeriesArgs == SeqsUpTo(IndVals, MaxLen)

\* the first n candles of a series of closes, with highs `up` above and lows
\* `dn` below the close
Prefix(s, n) == [i \in 1..n |-> s[i]]

\* a volume series of z idle candles (volume 0) followed by traded ones
VolumeSeries(z) == [i \in 1..MaxLenMulti |-> IF i <= z THEN 0 ELSE 1]

InitIndicators ==
    /\ pc = "call"
    /\ res = NoResult
    /\ \/ /\ fn \in {"ema", "rsi"}
          /\ args \in [data : SeriesArgs, period : Periods]
       \/ /\ fn = "macd"
          /\ args \in [data : SeriesArgs, fast : Periods, slow : Periods,
                       signal : Periods]
       \/ /\ fn = "bollinger_bands"
          /\ args \in [data : SeriesArgs, period : Periods, std : {2},
                       pandas : PandasVersions]
       \/ /\ fn = "stochastic_rsi"
          /\ args \in [data : SeriesArgs, period : Periods, k_period : Periods,
                       d_period : Periods]
       \/ /\ fn = "atr"
          /\ \E c \in [1..MaxLenMulti -> IndVals], up \in 0..1, dn \in 0..1,
                nh \in 0..MaxLenMulti, nl \in 0..MaxLenMulti, nc \in 0..MaxLenMulti,
                p \in Periods, pv \in PandasVersions :
                args = [high   |-> [i \in 1..nh |-> c[i] + up * Unit],
                        low    |-> [i \in 1..nl |-> c[i] - dn * Unit],
                        close  |-> Prefix(c, nc),
                        period |-> p,
                        pandas |-> pv]
       \/ /\ fn = "vwap"
          /\ \E c \in [1..MaxLenMulti -> IndVals], up \in 0..1, dn \in 0..1,
                z \in 0..MaxLenMulti,
                nh \in 0..MaxLenMulti, nl \in 0..MaxLenMulti, nc \in 0..MaxLenMulti,
                nv \in 0..MaxLenMulti :
                args = [high   |-> [i \in 1..nh |-> c[i] + up * Unit],
                        low    |-> [i \in 1..nl |-> c[i] - dn * Unit],
                        close  |-> Prefix(c, nc),
                        volume |-> Prefix(VolumeSeries(z), nv)]
       \/ /\ fn = "obv"
          /\ \E c \in [1..MaxLenMulti -> IndVals], z \in 0..MaxLenMulti,
                nc \in 0..MaxLenMulti, nv \in 0..MaxLenMulti :
                args = [close  |-> Prefix(c, nc),
                        volume |-> Prefix(VolumeSeries(z), nv)]

Return(f, value) ==
    /\ pc = "call"
    /\ fn = f
    /\ res' = value
    /\ pc' = "done"
    /\ UNCHANGED <<fn, args>>

Ema == fn = "ema" /\ Return("ema", ema(args.data, args.period))

Rsi == fn = "rsi" /\ Return("rsi", rsi(args.data, args.period))

Macd ==
    fn = "macd" /\ Return("macd", macd(args.data, args.fast, args.slow, args.signal))

BollingerBands ==
    /\ fn = "bollinger_bands"
    /\ Return("bollinger_bands",
              bollinger_bands(args.data, args.period, args.std, args.pandas))

Atr ==
    /\ fn = "atr"
    /\ Return("atr", atr(args.high, args.low, args.close, args.period, args.pandas))

Vwap ==
    fn = "vwap" /\ Return("vwap", vwap(args.high, args.low, args.close, args.volume))

StochasticRsi ==
    /\ fn = "stochastic_rsi"
    /\ Return("stochastic_rsi",
              stochastic_rsi(args.data, args.period, args.k_period, args.d_period))

Obv == fn = "obv" /\ Return("obv", obv(args.close, args.volume))

NextIndicators ==
    \/ Ema
    \/ Rsi
    \/ Macd
    \/ BollingerBands
    \/ Atr
    \/ Vwap
    \/ StochasticRsi
    \/ Obv

SpecIndicators == InitIndicators /\ [][NextIndicators]_vars

(***************************************************************************)
(* safe_value (BTCStrategy, ETHStrategy, SOLStrategy: three identical      *)
(* copies) and TechnicalIndicators.safe_float                              *)
(*   a Python value is a record: its type, and its float or its text       *)
(***************************************************************************)

PyNone == [type |-> "NoneType", v |-> 0, s |-> ""]

PyFloat(x) == [type |-> "float", v |-> x, s |-> ""]

PyStr(text) == [type |-> "str", v |-> 0, s |-> text]

PyList == [type |-> "list", v |-> 0, s |-> ""]

\* the strings the model draws: spellings of NaN, of None, a number, and text
\* float() cannot parse
StrTexts == {"nan", "NaN", "None", "1.5", "abc", ""}

\* str(value).lower()
StrLower(value) ==
    IF value.type = "NoneType" THEN "none"
    ELSE IF value.type = "float" THEN (IF IsNaN(value.v) THEN "nan" ELSE "number")
    ELSE IF value.type = "list" THEN "[]"
    ELSE IF value.s \in {"nan", "NaN"} THEN "nan"
    ELSE IF value.s = "None" THEN "none"
    ELSE value.s

\* float(value): the float, or the exception it raises
PyFloatOf(value) ==
    IF value.type = "float" THEN [raised |-> FALSE, v |-> value.v]
    ELSE IF value.type = "str"
    THEN IF value.s \in {"nan", "NaN"} THEN [raised |-> FALSE, v |-> NaN]
         ELSE IF value.s = "1.5" THEN [raised |-> FALSE, v |-> (3 * Unit) \div 2]
         ELSE [raised |-> TRUE, v |-> 0]          \* ValueError
    ELSE [raised |-> TRUE, v |-> 0]               \* TypeError

safe_value(value, default) ==
    IF value.type = "NoneType"
       \/ (value.type = "float" /\ StrLower(value) = "nan")
    THEN default
    ELSE IF PyFloatOf(value).raised THEN default   \* except: return default
    ELSE PyFloatOf(value).v

safe_float(value, default) ==
    IF value.type = "NoneType" \/ StrLower(value) \in {"nan", "none"}
    THEN default
    ELSE IF PyFloatOf(value).raised THEN default
    ELSE PyFloatOf(value).v

\* floats and defaults are drawn from 0 .. MaxSafeVal units
MaxSafeVal == 6

SafeNumbers == {i * Unit : i \in 0..MaxSafeVal}

PyValues ==
    {PyNone, PyList} \cup {PyFloat(x) : x \in SafeNumbers \cup {NaN}}
                     \cup {PyStr(t) : t \in StrTexts}

InitSafeValue ==
    /\ pc = "call"
    /\ fn \in {"safe_value", "safe_float"}
    /\ args \in [value : PyValues, default : SafeNumbers]
    /\ res = NoResult

SafeValue ==
    fn = "safe_value" /\ Return("safe_value", safe_value(args.value, args.default))

SafeFloat ==
    fn = "safe_float" /\ Return("safe_float", safe_float(args.value, args.default))

NextSafeValue == SafeValue \/ SafeFloat

SpecSafeValue == InitSafeValue /\ [][NextSafeValue]_vars

(***************************************************************************)
(* OrderBookAnalyzer.analyze_depth                                         *)
(*   an order book is None, a value that is no container, or a dict that   *)
(*   may lack 'bids' or 'asks'; a level is a sequence of fields            *)
(*   [price, size, ...] as the exchange sends them: text that float()      *)
(*   parses (ok, with its value) or not.  Prices are in cents, sizes in    *)
(*   1/100, imbalance in 1/1000.                                           *)
(***************************************************************************)

Field(x) == [ok |-> TRUE, v |-> x]

BadField == [ok |-> FALSE, v |-> 0]

Level(price, size) == <<Field(price), Field(size)>>

BookNone == [kind |-> "None", hasBids |-> FALSE, hasAsks |-> FALSE,
             bids |-> <<>>, asks |-> <<>>]

BookScalar == [kind |-> "scalar", hasBids |-> FALSE, hasAsks |-> FALSE,
               bids |-> <<>>, asks |-> <<>>]

BookDict(hasBids, hasAsks, bids, asks) ==
    [kind |-> "dict", hasBids |-> hasBids, hasAsks |-> hasAsks,
     bids |-> bids, asks |-> asks]

\* bids[:10], asks[:10]
DepthLevels == 10

Take(s, n) == [i \in 1..Min2(Len(s), n) |-> s[i]]

\* the levels of side[:10] whose size is summed: if len(level) > 1
Sized(side) == {i \in 1..Min2(Len(side), DepthLevels) : Len(side[i]) > 1}

\* the same sum over every level of the side
Depth_everylevel(side) ==
    SumRange([i \in 1..Len(side) |-> IF Len(side[i]) > 1 THEN side[i][2].v ELSE 0],
             1, Len(side))

\* sum(float(level[1]) for level in side[:10] if len(level) > 1)
Depth(side) ==
    SumRange([i \in 1..Min2(Len(side), DepthLevels) |->
                 IF Len(side[i]) > 1 THEN side[i][2].v ELSE 0],
             1, Min2(Len(side), DepthLevels))

DepthRecord(bid_depth, ask_depth, imbalance, spread, midprice, bias) ==
    [raised |-> FALSE, bid_depth |-> bid_depth, ask_depth |-> ask_depth,
     imbalance |-> imbalance, spread |-> spread, midprice |-> midprice,
     bias |-> bias]

\* what the body of the try block does: a result, or an exception
AnalyzeDepthBody(orderbook) ==
    IF orderbook.kind = "None" THEN DepthRecord(0, 0, 0, 0, 0, "Neutral")
    ELSE IF orderbook.kind = "scalar"
    THEN [raised |-> TRUE]               \* 'bids' not in orderbook: TypeError
    ELSE IF ~orderbook.hasBids \/ ~orderbook.hasAsks
    THEN DepthRecord(0, 0, 0, 0, 0, "Neutral")
    ELSE LET bids == orderbook.bids
             asks == orderbook.asks
         IN  IF bids = <<>> \/ asks = <<>>
             THEN DepthRecord(0, 0, 0, 0, 0, "Neutral")
             ELSE IF \/ \E i \in Sized(bids) : ~bids[i][2].ok
                     \/ \E i \in Sized(asks) : ~asks[i][2].ok
                     \/ (Len(bids[1]) > 0 /\ ~bids[1][1].ok)
                     \/ (Len(asks[1]) > 0 /\ ~asks[1][1].ok)
             THEN [raised |-> TRUE]      \* float(...): ValueError
             ELSE LET bid_depth == Depth(bids)
                      ask_depth == Depth(asks)
                      total_depth == bid_depth + ask_depth
                      best_bid == IF Len(bids[1]) > 0 THEN bids[1][1].v ELSE 0
                      best_ask == IF Len(asks[1]) > 0 THEN asks[1][1].v ELSE 0
                      quoted == best_bid > 0 /\ best_ask > 0
                      \* bias is decided on the imbalance before it is rounded
                      bias == IF total_depth > 0
                                 /\ 5 * (bid_depth - ask_depth) > total_depth
                              THEN "Bullish (strong bid depth)"
                              ELSE IF total_depth > 0
                                      /\ 5 * (bid_depth - ask_depth) < 0 - total_depth
                              THEN "Bearish (strong ask depth)"
                              ELSE "Neutral"
                  IN  DepthRecord(bid_depth, ask_depth,
                                  IF total_depth > 0
                                  THEN RoundDiv((bid_depth - ask_depth) * 1000, total_depth)
                                  ELSE 0,
                                  IF quoted THEN best_ask - best_bid ELSE 0,
                                  IF quoted THEN RoundDiv(best_bid + best_ask, 2) ELSE 0,
                                  bias)

\* the same function without its try/except: the exception reaches the caller
analyze_depth_uncaught(orderbook) == AnalyzeDepthBody(orderbook)

analyze_depth(orderbook) ==
    IF AnalyzeDepthBody(orderbook).raised
    THEN DepthRecord(0, 0, 0, 0, 0, "Error")     \* except Exception
    ELSE AnalyzeDepthBody(orderbook)

(***************************************************************************)
(* BTCStrategy.compute_position_size                                       *)
(*   entry, stop : prices in cents                                         *)
(*   balance     : self.account_balance in USDT                            *)
(*   riskBp, maxBp : risk_pct and max_notional_pct in 1/10000              *)
(*   result: qty in 1e-4 units (round(qty, 4)), notional and risk in       *)
(*   cents (round(., 2)); `capped` records the branch taken                *)
(***************************************************************************)

\* account_balance: float = 10000.0
DefaultBalance == 10000

\* risk_pct: float = 0.01, in 1/10000
DefaultRiskBp == 100

\* max_notional_pct: float = 0.3, in 1/10000
DefaultMaxNotionalBp == 3000

SizeRecord(qty, notional, risk, capped) ==
    [qty |-> qty, notional |-> notional, risk |-> risk, capped |-> capped]

\* the same function without the notional cap
compute_position_size_nocap(balance, entry, stop, riskBp, maxBp) ==
    LET risk_amount == (balance * riskBp) \div 10000
        stop_distance == Abs(entry - stop)
    IN  IF stop_distance <= 0
        THEN SizeRecord(0, 0, 0, FALSE)
        ELSE SizeRecord(MulDivRound(risk_amount * 10000, 100, stop_distance),
                        MulDivRound(risk_amount * 100, entry, stop_distance),
                        risk_amount * 100,
                        FALSE)

\* the same function with the risk amount left at balance * risk_pct when
\* the notional cap shrinks the quantity
compute_position_size_stalerisk(balance, entry, stop, riskBp, maxBp) ==
    LET risk_amount == (balance * riskBp) \div 10000
        stop_distance == Abs(entry - stop)
        max_notional == (balance * maxBp) \div 10000
    IN  IF stop_distance <= 0
        THEN SizeRecord(0, 0, 0, FALSE)
        ELSE IF ProductGreater(risk_amount, entry, max_notional, stop_distance)
             THEN SizeRecord(MulDivRound(max_notional * 10000, 100, entry),
                             MulDivRound(max_notional * 100, entry, entry),
                             risk_amount * 100,
                             TRUE)
             ELSE SizeRecord(MulDivRound(risk_amount * 10000, 100, stop_distance),
                             MulDivRound(risk_amount * 100, entry, stop_distance),
                             risk_amount * 100,
                             FALSE)

compute_position_size(balance, entry, stop, riskBp, maxBp) ==
    LET \* risk_amount = self.account_balance * risk_pct (whole USDT for the
        \* balances and percentages the model draws)
        risk_amount == (balance * riskBp) \div 10000
        stop_distance == Abs(entry - stop)
        \* max_notional = self.account_balance * max_notional_pct
        max_notional == (balance * maxBp) \div 10000
    IN  IF stop_distance <= 0
        THEN SizeRecord(0, 0, 0, FALSE)
        ELSE \* qty = risk_amount / stop_distance; notional = qty * entry;
             \* notional > max_notional, multiplied through by stop_distance > 0
             IF ProductGreater(risk_amount, entry, max_notional, stop_distance)
             THEN \* qty = max_notional / entry; notional = qty * entry;
                  \* risk_amount = qty * stop_distance
                  SizeRecord(MulDivRound(max_notional * 10000, 100, entry),
                             MulDivRound(max_notional * 100, entry, entry),
                             MulDivRound(max_notional * 100, stop_distance, entry),
                             TRUE)
             ELSE SizeRecord(MulDivRound(risk_amount * 10000, 100, stop_distance),
                             MulDivRound(risk_amount * 100, entry, stop_distance),
                             risk_amount * 100,
                             FALSE)

(***************************************************************************)
(* SRLevels.pivot_points                                                   *)
(*   high, low, close and the returned levels are in cents; a level is     *)
(*   carried as three times its value until round(., 2)                    *)
(***************************************************************************)

PivotRecord(p, r1, r2, r3, s1, s2, s3) ==
    [P |-> p, R1 |-> r1, R2 |-> r2, R3 |-> r3, S1 |-> s1, S2 |-> s2, S3 |-> s3]

\* the same function with the formulas of R1 and S1 exchanged
pivot_points_swapped(high, low, close) ==
    IF IsNaN(high) \/ IsNaN(low) \/ IsNaN(close)
    THEN PivotRecord(NaN, NaN, NaN, NaN, NaN, NaN, NaN)
    ELSE LET pivot3 == high + low + close
         IN  PivotRecord(RoundDiv(pivot3, 3),
                         RoundDiv(2 * pivot3 - 3 * high, 3),
                         RoundDiv(pivot3 + 3 * (high - low), 3),
                         RoundDiv(3 * high + 2 * (pivot3 - 3 * low), 3),
                         RoundDiv(2 * pivot3 - 3 * low, 3),
                         RoundDiv(pivot3 - 3 * (high - low), 3),
                         RoundDiv(3 * low - 2 * (3 * high - pivot3), 3))

pivot_points(high, low, close) ==
    \* float arithmetic on NaN raises nothing: every level is NaN, and
    \* round(nan, 2) is nan; the except branch is not entered
    IF IsNaN(high) \/ IsNaN(low) \/ IsNaN(close)
    THEN PivotRecord(NaN, NaN, NaN, NaN, NaN, NaN, NaN)
    ELSE LET \* pivot = (high + low + close) / 3
             pivot3 == high + low + close
             r1 == 2 * pivot3 - 3 * low
             s1 == 2 * pivot3 - 3 * high
             r2 == pivot3 + 3 * (high - low)
             s2 == pivot3 - 3 * (high - low)
             r3 == 3 * high + 2 * (pivot3 - 3 * low)
             s3 == 3 * low - 2 * (3 * high - pivot3)
         IN  PivotRecord(RoundDiv(pivot3, 3), RoundDiv(r1, 3), RoundDiv(r2, 3),
                         RoundDiv(r3, 3), RoundDiv(s1, 3), RoundDiv(s2, 3),
                         RoundDiv(s3, 3))

(***************************************************************************)
(* SRLevels.is_near_level                                                  *)
(*   price and level in cents; tolerance_pct in 1/100 of a percent         *)
(*   (1.0 is 100).  A caller that passes a price distance in USDT passes   *)
(*   that many percent: a distance of d cents is d / 100 percent, so d in  *)
(*   this unit.                                                            *)
(***************************************************************************)

\* the same function without the level == 0 guard
is_near_level_unguarded(price, level, tolerance_pct) ==
    Abs(price - level) * 10000 <= level * tolerance_pct

is_near_level(price, level, tolerance_pct) ==
    IF level = 0 THEN FALSE
    \* tolerance = level * (tolerance_pct / 100); abs(price - level) <= tolerance
    ELSE Abs(price - level) * 10000 <= level * tolerance_pct

(***************************************************************************)
(* The three strategies' get_signal                                        *)
(*                                                                         *)
(* A call fetches `n` klines and an order book.  The strategies need at    *)
(* least 200, 30 and 25 candles, so the model does not carry the series:   *)
(* a market snapshot `m` holds the number of klines, whether every kline   *)
(* field parses as a float, the candles get_signal reads directly (the     *)
(* last and the one before it), and the last value of each indicator       *)
(* series as the indicator returned it.  Every combination of the values   *)
(* drawn is a snapshot, so the model covers at least the snapshots real    *)
(* candle series produce.  Prices are in cents, RSI and %K in Unit,        *)
(* confidence in 1/100.                                                    *)
(***************************************************************************)

\* if len(closes) < 200 (BTCStrategy)
BtcMinCandles == 200

\* if len(closes) < 30 (ETHStrategy)
EthMinCandles == 30

\* if len(closes) < 25 (SOLStrategy)
SolMinCandles == 25

\* 'confidence': min(confidence, 0.95)
ConfidenceCap == 95

Unavailable == [kind |-> "None"]

\* ema(closes, period)[-1] on n candles: NaN when n < period
LastEma(n, period, value) == IF n < period THEN NaN ELSE value

\* the same function returning the raw confidence, without min(confidence, 0.95)
Capped_uncapped(confidence) == confidence

Capped(confidence) == Min2(confidence, ConfidenceCap)

\* if signal == "LONG" and imbalance > t: confidence += bonus
\* elif signal == "SHORT" and imbalance < -t: confidence += bonus
\* the same bonus granted already at the threshold itself
BookBonus_inclusive(side, imbalance, threshold, bonus) ==
    IF side = "LONG" /\ imbalance >= threshold THEN bonus
    ELSE IF side = "SHORT" /\ imbalance <= 0 - threshold THEN bonus
    ELSE 0

BookBonus(side, imbalance, threshold, bonus) ==
    IF side = "LONG" /\ imbalance > threshold THEN bonus
    ELSE IF side = "SHORT" /\ imbalance < 0 - threshold THEN bonus
    ELSE 0

\* the same check accepting one candle fewer than the minimum
TooFewCandles_lax(n, minimum) == n = 0 \/ n < minimum - 1

\* the checks that return None: not klines, len(closes) < minimum

TooFewCandles(n, minimum) == n = 0 \/ n < minimum

BTCStrategy_get_signal(m, balance) ==
    IF m.n = 0 THEN Unavailable                       \* if not klines
    ELSE IF ~m.wellformed THEN Unavailable            \* float(k[2]) raises
    ELSE IF TooFewCandles(m.n, BtcMinCandles) THEN Unavailable
    ELSE LET current_price == m.price
             current_ema50 == safe_value(PyFloat(LastEma(m.n, 50, m.ema50)), current_price)
             current_ema200 == safe_value(PyFloat(LastEma(m.n, 200, m.ema200)), current_price)
             current_rsi == safe_value(PyFloat(m.rsi), 50 * Unit)
             current_atr == safe_value(PyFloat(m.atr), RoundDiv(current_price * 2, 100))
             current_vwap == safe_value(PyFloat(m.vwap), current_price)
             pivot_levels == pivot_points(m.prev.high, m.prev.low, m.prev.close)
             orderbook_data == analyze_depth(m.orderbook)
             near_support ==
                 \/ is_near_level(current_price, pivot_levels.S1, current_atr)
                 \/ is_near_level(current_price, pivot_levels.S2, current_atr)
                 \/ is_near_level(current_price, m.weekly_low, (current_atr * 3) \div 2)
                 \/ current_price > pivot_levels.S1
             near_resistance ==
                 \/ is_near_level(current_price, pivot_levels.R1, current_atr)
                 \/ is_near_level(current_price, pivot_levels.R2, current_atr)
                 \/ is_near_level(current_price, m.weekly_high, (current_atr * 3) \div 2)
                 \/ current_price < pivot_levels.R1
             long == /\ current_ema50 > current_ema200
                     /\ current_price > current_vwap
                     /\ current_rsi > 50 * Unit
             short == /\ current_ema50 < current_ema200
                      /\ current_price < current_vwap
                      /\ current_rsi < 50 * Unit
             signal == IF long THEN (IF near_support THEN "LONG" ELSE "HOLD")
                       ELSE IF short /\ near_resistance THEN "SHORT"
                       ELSE "HOLD"
             confidence == IF signal = "HOLD" THEN 30
                           ELSE 70 + BookBonus(signal, orderbook_data.imbalance, 100, 10)
             \* the stop is carried as 1000 times and the target as twice its
             \* value until round(., 2); compute_position_size is handed the
             \* stop to the cent
             stop_loss ==
                 IF signal = "LONG"
                 THEN RoundDiv(Max2(pivot_levels.S1 * 999,
                                    (current_price - current_atr) * 1000), 1000)
                 ELSE IF signal = "SHORT"
                 THEN RoundDiv(Min2(pivot_levels.R1 * 1001,
                                    (current_price + current_atr) * 1000), 1000)
                 ELSE RoundDiv(current_price * 98, 100)
             take_profit ==
                 IF signal = "LONG"
                 THEN RoundDiv(Min2(pivot_levels.R1 * 2,
                                    current_price * 2 + current_atr * 3), 2)
                 ELSE IF signal = "SHORT"
                 THEN RoundDiv(Max2(pivot_levels.S1 * 2,
                                    current_price * 2 - current_atr * 3), 2)
                 ELSE RoundDiv(current_price * 102, 100)
             size == compute_position_size(balance, current_price, stop_loss,
                                           DefaultRiskBp, DefaultMaxNotionalBp)
         IN  IF orderbook_data.raised THEN Unavailable    \* except Exception
             ELSE [kind |-> "Signal", symbol |-> "BTC-USDT", side |-> signal,
                   entry |-> current_price, stop_loss |-> stop_loss,
                   take_profit |-> take_profit,
                   quantity |-> size.qty, notional |-> size.notional,
                   risk_usdt |-> size.risk,
                   sr_levels |-> pivot_levels,
                   orderbook_bias |-> orderbook_data.bias,
                   confidence |-> Capped(confidence)]

\* the same chain with a mean-reversion long that does not ask for the
\* price at the lower band
EthEntryBranch_anyprice(price, upper, lower, ema20, ema50, hist, near_s1, near_r1, levels) ==
    IF /\ ema20 > ema50
       /\ hist > 0
    THEN (IF near_s1 \/ price > levels.S2
          THEN "reversion_long" ELSE "none")
    ELSE IF /\ price >= upper
            /\ ema20 < ema50
            /\ hist < 0
    THEN (IF near_r1 \/ price < levels.R2
          THEN "reversion_short" ELSE "none")
    ELSE IF price > upper /\ ema20 > ema50
    THEN (IF price > levels.R1
          THEN "breakout_long" ELSE "none")
    ELSE IF price < lower /\ ema20 < ema50
    THEN (IF price < levels.S1
          THEN "breakout_short" ELSE "none")
    ELSE "none"

\* the if / elif chain of the four entry branches; the first branch whose
\* condition holds is the only one tried
EthEntryBranch(price, upper, lower, ema20, ema50, hist, near_s1, near_r1, levels) ==
    IF /\ price <= lower
       /\ ema20 > ema50
       /\ hist > 0
    THEN (IF near_s1 \/ price > levels.S2
          THEN "reversion_long" ELSE "none")
    ELSE IF /\ price >= upper
            /\ ema20 < ema50
            /\ hist < 0
    THEN (IF near_r1 \/ price < levels.R2
          THEN "reversion_short" ELSE "none")
    ELSE IF price > upper /\ ema20 > ema50
    THEN (IF price > levels.R1
          THEN "breakout_long" ELSE "none")
    ELSE IF price < lower /\ ema20 < ema50
    THEN (IF price < levels.S1
          THEN "breakout_short" ELSE "none")
    ELSE "none"

ETHStrategy_get_signal(m) ==
    IF m.n = 0 THEN Unavailable
    ELSE IF ~m.wellformed THEN Unavailable
    ELSE IF TooFewCandles(m.n, EthMinCandles) THEN Unavailable
    ELSE LET current_price == m.price
             current_bb_upper == safe_value(PyFloat(m.bb_upper),
                                            RoundDiv(current_price * 102, 100))
             current_bb_lower == safe_value(PyFloat(m.bb_lower),
                                            RoundDiv(current_price * 98, 100))
             current_bb_middle == safe_value(PyFloat(m.bb_middle), current_price)
             current_ema20 == safe_value(PyFloat(LastEma(m.n, 20, m.ema20)), current_price)
             current_ema50 == safe_value(PyFloat(LastEma(m.n, 50, m.ema50)), current_price)
             current_macd_hist == safe_value(PyFloat(m.macd_hist), 0)
             pivot_levels == pivot_points(m.last.high, m.last.low, current_price)
             orderbook_data == analyze_depth(m.orderbook)
             near_s1 == is_near_level(current_price, pivot_levels.S1, 100)
             near_r1 == is_near_level(current_price, pivot_levels.R1, 100)
             branch == EthEntryBranch(current_price, current_bb_upper, current_bb_lower,
                                      current_ema20, current_ema50, current_macd_hist,
                                      near_s1, near_r1, pivot_levels)
             signal == IF branch \in {"reversion_long", "breakout_long"} THEN "LONG"
                       ELSE IF branch \in {"reversion_short", "breakout_short"} THEN "SHORT"
                       ELSE "HOLD"
             base == IF branch \in {"reversion_long", "reversion_short"} THEN 50 + 25
                     ELSE IF branch \in {"breakout_long", "breakout_short"} THEN 50 + 20
                     ELSE 30
             confidence == base + BookBonus(signal, orderbook_data.imbalance, 100, 15)
             \* atr_estimate = (max(highs[-20:]) - min(lows[-20:])) / 20;
             \* the stop is carried as 200 times its value until round(., 2)
             atr_estimate20 == m.high20 - m.low20
             stop_loss ==
                 IF signal = "LONG"
                 THEN RoundDiv(Max2(current_bb_lower * 199,
                                    200 * current_price - 10 * atr_estimate20), 200)
                 ELSE IF signal = "SHORT"
                 THEN RoundDiv(Min2(current_bb_upper * 201,
                                    200 * current_price + 10 * atr_estimate20), 200)
                 ELSE RoundDiv(current_price * 98, 100)
             take_profit ==
                 IF signal \in {"LONG", "SHORT"} THEN current_bb_middle
                 ELSE RoundDiv(current_price * 102, 100)
         IN  IF orderbook_data.raised THEN Unavailable
             ELSE [kind |-> "Signal", symbol |-> "ETH/USDT", side |-> signal,
                   entry |-> current_price, stop_loss |-> stop_loss,
                   take_profit |-> take_profit,
                   sr_levels |-> pivot_levels,
                   orderbook_bias |-> orderbook_data.bias,
                   confidence |-> Capped(confidence),
                   branch |-> branch]

\* the same test with >=: an unchanged OBV counts as rising
ObvTrend_flatrising(length, last, third_last) ==
    IF length >= 3 /\ safe_value(PyFloat(last), 0) >= safe_value(PyFloat(third_last), 0)
    THEN "rising" ELSE "falling"

\* obv_trend, from len(obv), obv[-1] and obv[-3]
ObvTrend(length, last, third_last) ==
    IF length >= 3 /\ safe_value(PyFloat(last), 0) > safe_value(PyFloat(third_last), 0)
    THEN "rising" ELSE "falling"

SOLStrategy_get_signal(m) ==
    IF m.n = 0 THEN Unavailable
    ELSE IF ~m.wellformed THEN Unavailable
    ELSE IF TooFewCandles(m.n, SolMinCandles) THEN Unavailable
    ELSE LET current_price == m.price
             current_ema9 == safe_value(PyFloat(LastEma(m.n, 9, m.ema9)), current_price)
             current_ema21 == safe_value(PyFloat(LastEma(m.n, 21, m.ema21)), current_price)
             current_stoch_k == safe_value(PyFloat(m.stoch_k), 50 * Unit)
             current_vwap == safe_value(PyFloat(m.vwap), current_price)
             \* obv has one value per candle
             obv_trend == ObvTrend(m.n, m.obv_last, m.obv_third_last)
             pivot_levels == pivot_points(m.last.high, m.last.low, current_price)
             \* vwap_bands([current_vwap] * 20, 20, 1.0): the deviation of a
             \* constant series is 0, both bands are round(current_vwap, 2)
             vwap_lower == current_vwap
             vwap_upper == current_vwap
             orderbook_data == analyze_depth(m.orderbook)
             long == /\ current_ema9 > current_ema21
                     /\ current_stoch_k < 30 * Unit
                     /\ current_price > current_vwap
                     /\ obv_trend = "rising"
             short == /\ current_ema9 < current_ema21
                      /\ current_stoch_k > 70 * Unit
                      /\ current_price < current_vwap
                      /\ obv_trend = "falling"
             signal ==
                 IF long
                 THEN (IF \/ is_near_level(current_price, m.pd_low, 100)
                          \/ is_near_level(current_price, vwap_lower, 50)
                          \/ current_price > pivot_levels.S1
                       THEN "LONG" ELSE "HOLD")
                 ELSE IF short
                 THEN (IF \/ is_near_level(current_price, m.pd_high, 100)
                          \/ is_near_level(current_price, vwap_upper, 50)
                          \/ current_price < pivot_levels.R1
                       THEN "SHORT" ELSE "HOLD")
                 ELSE "HOLD"
             base == IF signal = "HOLD" THEN 30 ELSE 50 + 30
             confidence == base + BookBonus(signal, orderbook_data.imbalance, 150, 20)
             \* entry, stop and target are rounded to 3 decimals: they are
             \* returned in 1/1000 USDT
             stop_loss ==
                 IF signal = "LONG" THEN RoundDiv(current_price * 9965, 1000)
                 ELSE IF signal = "SHORT" THEN RoundDiv(current_price * 10035, 1000)
                 ELSE RoundDiv(current_price * 99, 10)
             take_profit ==
                 IF signal = "LONG" THEN RoundDiv(current_price * 1006, 100)
                 ELSE IF signal = "SHORT" THEN RoundDiv(current_price * 994, 100)
                 ELSE RoundDiv(current_price * 101, 10)
         IN  IF orderbook_data.raised THEN Unavailable
             ELSE [kind |-> "Signal", symbol |-> "SOL/USDT", side |-> signal,
                   entry |-> current_price * 10, stop_loss |-> stop_loss,
                   take_profit |-> take_profit,
                   sr_levels |-> pivot_levels,
                   orderbook_bias |-> orderbook_data.bias,
                   confidence |-> Capped(confidence),
                   obv_trend |-> obv_trend]

\* prices on a grid of 500 USDT (50000 cents), 0 .. MaxPriceIdx * 500 USDT
MaxPriceIdx == 100

PriceGrid == {i * 50000 : i \in 0..MaxPriceIdx}

Balances == {DefaultBalance, DefaultBalance \div 4}

RiskBps == {DefaultRiskBp, 2 * DefaultRiskBp}

MaxNotionalBps == {DefaultMaxNotionalBp, 5000}

SizingArgs ==
    [balance : Balances, entry : PriceGrid, stop : PriceGrid,
     riskBp : RiskBps, maxBp : MaxNotionalBps]

InitSizing ==
    /\ pc = "call"
    /\ fn = "compute_position_size"
    /\ args \in SizingArgs
    /\ res = NoResult

ComputePositionSize ==
    /\ pc = "call"
    /\ fn = "compute_position_size"
    /\ res' = compute_position_size(args.balance, args.entry, args.stop,
                                    args.riskBp, args.maxBp)
    /\ pc' = "done"
    /\ UNCHANGED <<fn, args>>

NextSizing == ComputePositionSize

SpecSizing == InitSizing /\ [][NextSizing]_vars

SizingDone == pc = "done" /\ fn = "compute_position_size"

\* C4: compute_position_size returns risk = B*r, quantity = risk/|entry - stop|
\* and notional = quantity*entry when that notional is at most B*m; otherwise
\* quantity = B*m/entry, notional = B*m and risk = quantity*|entry - stop|;
\* (0, 0, 0) when |entry - stop| <= 0; and for entry 45000, stop 44500,
\* B = 10000, r = 1%, m = 30% it returns 0.0667, 3000.00, 33.33.
C4_PositionSizeFormula ==
    SizingDone =>
        LET B == args.balance
            d == Abs(args.entry - args.stop)
            riskUsdt == (B * args.riskBp) \div 10000
            capUsdt == (B * args.maxBp) \div 10000
            withinCap == ~ProductGreater(riskUsdt, args.entry, capUsdt, d)
        IN  /\ d <= 0 => res.qty = 0 /\ res.notional = 0 /\ res.risk = 0
            /\ (d > 0 /\ withinCap) =>
                   /\ res.risk = 100 * riskUsdt
                   /\ res.qty = MulDivRound(1000000 * riskUsdt, 1, d)
                   /\ res.notional = MulDivRound(100 * riskUsdt, args.entry, d)
            /\ (d > 0 /\ ~withinCap) =>
                   /\ res.notional = 100 * capUsdt
                   /\ res.qty = MulDivRound(10000 * capUsdt, 100, args.entry)
                   /\ res.risk = MulDivRound(100 * capUsdt, d, args.entry)
            /\ (/\ args.entry = 4500000 /\ args.stop = 4450000 /\ B = 10000
                /\ args.riskBp = 100 /\ args.maxBp = 3000) =>
                   res.qty = 667 /\ res.notional = 300000 /\ res.risk = 3333

C4_Witness ==
    /\ SizingDone
    /\ args = [balance |-> 10000, entry |-> 4500000, stop |-> 4450000,
               riskBp |-> 100, maxBp |-> 3000]
    /\ res.capped
    /\ res.qty = 667

\* C5: for every entry > 0 and every stop, notional <= balance * max_notional_pct
\* and risk <= balance * risk_pct, and quantity, notional and risk are >= 0.
C5_SizingWithinLimits ==
    (SizingDone /\ args.entry > 0) =>
        /\ res.notional <= (args.balance * args.maxBp) \div 100
        /\ res.risk <= (args.balance * args.riskBp) \div 100
        /\ res.qty >= 0
        /\ res.notional >= 0
        /\ res.risk >= 0

C5_Witness ==
    /\ SizingDone
    /\ args.entry > 0
    /\ res.capped
    /\ res.notional = (args.balance * args.maxBp) \div 100
    /\ res.risk > 0
    /\ res.risk < (args.balance * args.riskBp) \div 100

\* high, low and close are drawn from 1 .. MaxPivotVal cents, and NaN
MaxPivotVal == 7

PivotVals == (1..MaxPivotVal) \cup {NaN}

InitPivot ==
    /\ pc = "call"
    /\ fn = "pivot_points"
    /\ args \in [high : PivotVals, low : PivotVals, close : PivotVals]
    /\ res = NoResult

PivotPoints ==
    /\ pc = "call"
    /\ fn = "pivot_points"
    /\ res' = pivot_points(args.high, args.low, args.close)
    /\ pc' = "done"
    /\ UNCHANGED <<fn, args>>

NextPivot == PivotPoints

SpecPivot == InitPivot /\ [][NextPivot]_vars

PivotDone == pc = "done" /\ fn = "pivot_points"

PivotDefined == ~IsNaN(args.high) /\ ~IsNaN(args.low) /\ ~IsNaN(args.close)

PivotOrdered ==
    /\ res.S3 <= res.S2
    /\ res.S2 <= res.S1
    /\ res.S1 <= res.P
    /\ res.P <= res.R1
    /\ res.R1 <= res.R2
    /\ res.R2 <= res.R3

\* C6 as stated: the levels are ordered S3 <= S2 <= S1 <= P <= R1 <= R2 <= R3
\* for every input with high >= low, whatever the value of close.
C6_PivotOrderedAnyClose ==
    (PivotDone /\ PivotDefined /\ args.high >= args.low) => PivotOrdered

\* C6 as amended: the levels are ordered for every input with high >= low and
\* 2*low - high <= close <= 2*high - low (so whenever low <= close <= high).
C6_PivotOrderedCloseNearRange ==
    (/\ PivotDone
     /\ PivotDefined
     /\ args.high >= args.low
     /\ 2 * args.low - args.high <= args.close
     /\ args.close <= 2 * args.high - args.low) => PivotOrdered

C6_Witness ==
    /\ PivotDone
    /\ PivotDefined
    /\ args.high > args.low
    /\ args.close > args.high
    /\ args.close <= 2 * args.high - args.low
    /\ res.S1 < res.P
    /\ res.P < res.R1
    /\ PivotOrdered


(***************************************************************************)
(* The get_signal calls the model makes                                    *)
(***************************************************************************)

\* candle counts reach the minimum and up to MaxSurplus candles more
MaxSurplus == 1

\* how many klines the client returned: none, one, one too few, enough;
\* 49 and 50 are either side of the longest EMA period ETH uses
CandleCounts(minimum) ==
    {0, 1, minimum - 1, 49, 50} \cup {minimum + k : k \in 0..MaxSurplus}

\* order books as get_orderbook can hand them over
Books ==
    { BookNone,
      BookScalar,
      BookDict(TRUE, FALSE, <<Level(9990, 100)>>, <<>>),
      BookDict(TRUE, TRUE, <<>>, <<>>),
      BookDict(TRUE, TRUE, <<<<Field(9990), BadField>>>>, <<Level(10010, 100)>>),
      BookDict(TRUE, TRUE, <<<<Field(9990)>>>>, <<Level(10010, 100)>>),
      BookDict(TRUE, TRUE, <<Level(9990, 100)>>, <<Level(10010, 100)>>),
      BookDict(TRUE, TRUE, <<Level(9990, 110)>>, <<Level(10010, 90)>>),
      BookDict(TRUE, TRUE, <<Level(9990, 112)>>, <<Level(10010, 88)>>),
      BookDict(TRUE, TRUE, <<Level(9990, 200), Level(9980, 100)>>,
                           <<Level(10010, 100)>>),
      BookDict(TRUE, TRUE, <<Level(9990, 100)>>,
                           <<Level(10010, 200), Level(10020, 100)>>) }

Candle(high, low, close) == [high |-> high, low |-> low, close |-> close]

\* the high and low of the last candle; its close is the current price
HighLow(high, low) == [high |-> high, low |-> low]

BtcSnapshots ==
    [ n : CandleCounts(BtcMinCandles),
      wellformed : BOOLEAN,
      price : {10000},
      ema50 : {9900, 10000, 10100},
      ema200 : {10000},
      rsi : {40 * Unit, 50 * Unit, 60 * Unit},
      atr : {50, 200},
      vwap : {9950, 10050},
      prev : {Candle(10100, 9900, 10000), Candle(10300, 10200, 10250),
              Candle(9900, 9800, 9850)},
      weekly_high : {10400},
      weekly_low : {9000, 9800},
      orderbook : Books ]

EthSnapshots ==
    [ n : CandleCounts(EthMinCandles),
      wellformed : BOOLEAN,
      price : {9800, 9900, 10000, 10100, 10200},
      bb_upper : {10100},
      bb_middle : {10000},
      bb_lower : {9900},
      ema20 : {9950, 10000, 10050},
      ema50 : {10000},
      macd_hist : {-10, 0, 10},
      last : {HighLow(10250, 9750), HighLow(10400, 10150),
              HighLow(9850, 9600)},
      high20 : {10400},
      low20 : {9600},
      orderbook : Books ]

SolSnapshots ==
    [ n : CandleCounts(SolMinCandles),
      wellformed : BOOLEAN,
      price : {10000},
      ema9 : {9990, 10010},
      ema21 : {10000},
      stoch_k : {20 * Unit, 50 * Unit, 80 * Unit},
      vwap : {9950, 10050},
      obv_last : {0, 500},
      obv_third_last : {0, 500},
      last : {HighLow(10010, 9990), HighLow(10020, 10000)},
      pd_high : {10020, 10500},
      pd_low : {9500, 9990},
      orderbook : Books ]

InitSignal ==
    /\ pc = "call"
    /\ res = NoResult
    /\ \/ fn = "btc" /\ args \in [m : BtcSnapshots, balance : {DefaultBalance}]
       \/ fn = "eth" /\ args \in [m : EthSnapshots]
       \/ fn = "sol" /\ args \in [m : SolSnapshots]

BtcGetSignal ==
    /\ pc = "call" /\ fn = "btc"
    /\ res' = BTCStrategy_get_signal(args.m, args.balance)
    /\ pc' = "done"
    /\ UNCHANGED <<fn, args>>

EthGetSignal ==
    /\ pc = "call" /\ fn = "eth"
    /\ res' = ETHStrategy_get_signal(args.m)
    /\ pc' = "done"
    /\ UNCHANGED <<fn, args>>

SolGetSignal ==
    /\ pc = "call" /\ fn = "sol"
    /\ res' = SOLStrategy_get_signal(args.m)
    /\ pc' = "done"
    /\ UNCHANGED <<fn, args>>

NextSignal == BtcGetSignal \/ EthGetSignal \/ SolGetSignal

SpecSignal == InitSignal /\ [][NextSignal]_vars

SignalDone == pc = "done" /\ fn \in {"btc", "eth", "sol"}

MinCandles == IF fn = "btc" THEN BtcMinCandles
              ELSE IF fn = "eth" THEN EthMinCandles
              ELSE SolMinCandles


(***************************************************************************)
(* Claims about get_signal, checked under SpecSignal                       *)
(***************************************************************************)

\* C1: for each of the three strategies, get_signal returns a Signal (not
\* None) whenever the client supplied at least the strategy's minimum number
\* of well-formed candles, for every order book: None, no dict, a dict
\* without 'bids' or 'asks', empty sides, or levels float() cannot parse.
C1_SignalForEveryOrderBook ==
    (SignalDone /\ args.m.n >= MinCandles /\ args.m.wellformed)
        => res.kind = "Signal"

\* an order book with an unparseable size: analyze_depth fell back to its
\* 'Error' record and the strategy returned a Signal
C1_Witness ==
    /\ SignalDone
    /\ fn = "eth"
    /\ args.m.n = EthMinCandles
    /\ args.m.wellformed
    /\ AnalyzeDepthBody(args.m.orderbook).raised
    /\ res.kind = "Signal"
    /\ res.orderbook_bias = "Error"

\* C2: get_signal returns None when the candle list is empty or shorter than
\* the strategy's minimum (200 for BTC, 30 for ETH, 25 for SOL), and with at
\* least that many well-formed candles it does not return None.
C2_NoneBelowMinimumCandles ==
    SignalDone =>
        /\ (args.m.n < MinCandles => res = Unavailable)
        /\ (args.m.n >= MinCandles /\ args.m.wellformed => res # Unavailable)

\* 199 well-formed candles for BTC: one too few
C2_Witness ==
    /\ SignalDone
    /\ fn = "btc"
    /\ args.m.n = BtcMinCandles - 1
    /\ args.m.wellformed
    /\ res = Unavailable

\* C3: in every Signal of the three strategies the confidence lies in
\* [0, 0.95], and the side is HOLD exactly when the confidence is 0.3.
C3_ConfidenceBoundedHoldIsThirty ==
    (SignalDone /\ res.kind = "Signal") =>
        /\ res.confidence \in 0..ConfidenceCap
        /\ (res.side = "HOLD" <=> res.confidence = 30)

\* a SOL LONG confirmed by the order book: 0.5 + 0.3 + 0.2 capped to 0.95
C3_Witness ==
    /\ SignalDone
    /\ fn = "sol"
    /\ res.kind = "Signal"
    /\ res.side = "LONG"
    /\ analyze_depth(args.m.orderbook).imbalance > 150
    /\ res.confidence = ConfidenceCap

(***************************************************************************)
(* Claims about the indicators, checked under SpecIndicators               *)
(***************************************************************************)

IndicatorDone == pc = "done" /\ fn \in {"ema", "rsi", "macd", "bollinger_bands",
                                        "atr", "vwap", "stochastic_rsi", "obv"}

\* the sequences a call returned
Outputs ==
    IF fn = "macd" THEN {res.macd, res.signal, res.hist}
    ELSE IF fn = "bollinger_bands" THEN {res.upper, res.middle, res.lower}
    ELSE IF fn = "stochastic_rsi" THEN {res.k, res.d}
    ELSE {res}

\* the price series of a call: data, close for vwap and obv, and high for
\* atr (the series atr's own guard and fallbacks measure)
InputSeries ==
    IF fn \in {"vwap", "obv"} THEN args.close
    ELSE IF fn = "atr" THEN args.high
    ELSE args.data

\* C7: every indicator returns sequences as long as its input price series,
\* for every input length, including high, low, close and volume arguments
\* of differing lengths.
C7_OutputAsLongAsInput ==
    IndicatorDone => \A out \in Outputs : Len(out) = Len(InputSeries)

\* vwap was handed close and volume of one length and a shorter high
C7_ShortHighToVwap ==
    /\ IndicatorDone
    /\ fn = "vwap"
    /\ Len(args.close) = Len(args.volume)
    /\ Len(args.low) = Len(args.close)
    /\ Len(args.high) < Len(args.close)
    /\ Len(res) = Len(args.high)

\* high, low and close of one candle series
SameLengths ==
    fn = "atr" => Len(args.high) = Len(args.low) /\ Len(args.low) = Len(args.close)

NaNChecked == fn \in {"ema", "rsi", "macd", "bollinger_bands", "atr", "stochastic_rsi"}

\* C8 (as stated): the output of ema, rsi, macd, bollinger_bands, atr and
\* stochastic_rsi holds no NaN, for every input of defined numbers and every
\* length, inputs shorter than the period included.
C8_NoNaNInAnyOutput ==
    (IndicatorDone /\ NaNChecked /\ SameLengths) =>
        \A out \in Outputs : ~HasNaN(out)

\* C8 (amended): rsi, macd, bollinger_bands, atr and stochastic_rsi return no
\* NaN for any length; ema returns no NaN when it has at least `period`
\* values, and NaN at every index when it has fewer.
C8_NoNaNExceptShortEma ==
    (IndicatorDone /\ NaNChecked /\ SameLengths) =>
        IF fn = "ema" /\ Len(args.data) < args.period
        THEN \A i \in 1..Len(res) : IsNaN(res[i])
        ELSE \A out \in Outputs : ~HasNaN(out)

\* rsi on enough history: the rolling means are undefined on the leading
\* indexes and the output has a number there
C8_Witness ==
    /\ IndicatorDone
    /\ fn = "rsi"
    /\ Len(args.data) >= args.period + 1
    /\ HasNaN(rsi_nofill(args.data, args.period))
    /\ ~HasNaN(res)

\* no close of the window ending at index i is below its predecessor
NoFallInWindow(data, i, period) ==
    \A j \in (i - period + 1)..i : j >= 2 => data[j] >= data[j - 1]

\* C10: with len >= period + 1, rsi is 100 at every index whose rolling
\* average loss is zero, and every value lies in [0, 100].
C10_RsiHundredWithoutLoss ==
    (IndicatorDone /\ fn = "rsi" /\ Len(args.data) >= args.period + 1) =>
        \A i \in 1..Len(res) :
            /\ res[i] >= 0
            /\ res[i] <= 100 * Unit
            /\ (i >= args.period /\ NoFallInWindow(args.data, i, args.period))
                   => res[i] = 100 * Unit

\* prices rose over a whole window and rsi is 0 at its end
C10_RisingWindowGivesZero ==
    /\ IndicatorDone
    /\ fn = "rsi"
    /\ Len(args.data) >= args.period + 1
    /\ \E i \in (args.period + 1)..Len(res) :
           /\ \A j \in (i - args.period + 1)..i : args.data[j] > args.data[j - 1]
           /\ res[i] = 0

(***************************************************************************)
(* Claims about safe_value, checked under SpecSafeValue                    *)
(***************************************************************************)

\* the values the claim lists: None, NaN, a string spelling 'nan', and
\* values float() cannot parse
Undefined(value) ==
    \/ value.type = "NoneType"
    \/ value.type = "float" /\ IsNaN(value.v)
    \/ value.type = "str" /\ value.s \in {"nan", "NaN"}
    \/ PyFloatOf(value).raised

\* C9: safe_value never returns NaN: for None, NaN, a string spelling 'nan'
\* and unparseable values it returns the caller's default.
C9_SafeValueNeverNaN ==
    (pc = "done" /\ fn = "safe_value") =>
        /\ ~IsNaN(res)
        /\ Undefined(args.value) => res = args.default

\* the string 'nan' came back as NaN, not as the default
C9_NaNStringReturned ==
    /\ pc = "done"
    /\ fn = "safe_value"
    /\ args.value = PyStr("nan")
    /\ IsNaN(res)

(***************************************************************************)
(* The analyze_depth calls the model makes                                 *)
(***************************************************************************)

\* a side has up to DepthLevels + MaxExtraLevels levels
MaxExtraLevels == 2

SideLengths == {0, 1, 2} \cup {DepthLevels + k : k \in 0..MaxExtraLevels}

\* a side of n levels one cent apart from `best` (bids step down, asks up):
\* the first level has size `first`, the others among the top 10 `rest`, and
\* the levels beyond the 10th carry the field `tail` as their size
BookSide(n, best, step, first, rest, tail) ==
    [i \in 1..n |->
        <<Field(best + step * (i - 1)),
          IF i = 1 THEN Field(first)
          ELSE IF i <= DepthLevels THEN Field(rest)
          ELSE tail>>]

TailFields == {Field(0), Field(500), BadField}

BidSides ==
    {BookSide(n, best, -1, first, rest, tail) :
        n \in SideLengths, best \in {0, 9990, 10020}, first \in {0, 100, 3001},
        rest \in {0, 100}, tail \in TailFields}

AskSides ==
    {BookSide(n, 10010, 1, first, rest, tail) :
        n \in SideLengths, first \in {0, 100, 2000},
        rest \in {0, 100}, tail \in TailFields}

DepthBooks ==
    Books \cup {BookDict(TRUE, TRUE, b, a) : b \in BidSides, a \in AskSides}

InitDepth ==
    /\ pc = "call"
    /\ fn = "analyze_depth"
    /\ args \in [orderbook : DepthBooks]
    /\ res = NoResult

AnalyzeDepth ==
    /\ fn = "analyze_depth"
    /\ Return("analyze_depth", analyze_depth(args.orderbook))

NextDepth == AnalyzeDepth

SpecDepth == InitDepth /\ [][NextDepth]_vars

DepthDone == pc = "done" /\ fn = "analyze_depth"

\* not orderbook, a key missing, or an empty side
EmptyOrMissing(orderbook) ==
    \/ orderbook.kind = "None"
    \/ /\ orderbook.kind = "dict"
       /\ \/ ~orderbook.hasBids
          \/ ~orderbook.hasAsks
          \/ orderbook.bids = <<>>
          \/ orderbook.asks = <<>>

\* the sum of the sizes of the first 10 levels of a side that carry a size
TopTenSize(side) ==
    SumRange([i \in 1..Len(side) |->
                 IF i <= 10 /\ Len(side[i]) > 1 THEN side[i][2].v ELSE 0],
             1, Len(side))

\* the same book cut to the first 10 levels of each side
TopTen(orderbook) ==
    [orderbook EXCEPT !.bids = Take(orderbook.bids, 10),
                      !.asks = Take(orderbook.asks, 10)]

\* C11: analyze_depth sums the sizes of the top 10 levels of each side and
\* returns imbalance = (bid_depth - ask_depth) / (bid_depth + ask_depth),
\* within [-1, 1] for non-negative sizes and 0 when the total depth is 0; an
\* empty or missing book gives bias Neutral with every number 0; levels
\* beyond the 10th never change the result.
C11_ImbalanceOfTopTen ==
    DepthDone =>
        /\ EmptyOrMissing(args.orderbook) =>
               res = DepthRecord(0, 0, 0, 0, 0, "Neutral")
        /\ (~EmptyOrMissing(args.orderbook) /\ res.bias # "Error") =>
               LET b == TopTenSize(args.orderbook.bids)
                   a == TopTenSize(args.orderbook.asks)
               IN  /\ res.bid_depth = b
                   /\ res.ask_depth = a
                   /\ res.imbalance >= 0 - Unit
                   /\ res.imbalance <= Unit
                   /\ b + a = 0 => res.imbalance = 0
                   /\ b + a > 0 => res.imbalance = RoundDiv((b - a) * Unit, b + a)
        /\ res = analyze_depth(TopTen(args.orderbook))

\* twelve bids and eleven asks, with sizes beyond the 10th level that would
\* move the imbalance if they were counted
C11_Witness ==
    /\ DepthDone
    /\ Len(args.orderbook.bids) = 12
    /\ Len(args.orderbook.asks) = 11
    /\ args.orderbook.bids[11][2] = Field(500)
    /\ args.orderbook.asks[11][2] = Field(0)
    /\ res.bid_depth = 1000
    /\ res.ask_depth = 1000
    /\ res.imbalance = 0
    /\ res.bias = "Neutral"

\* C12: in every result that is not the exception result, the bias agrees
\* with the returned imbalance: Bullish exactly when imbalance > 0.2, Bearish
\* exactly when imbalance < -0.2, Neutral otherwise.
C12_BiasAgreesWithImbalance ==
    (DepthDone /\ res.bias # "Error") =>
        /\ res.bias = "Bullish (strong bid depth)" <=> res.imbalance > 200
        /\ res.bias = "Bearish (strong ask depth)" <=> res.imbalance < -200
        /\ res.bias = "Neutral" <=> (res.imbalance >= -200 /\ res.imbalance <= 200)

\* depths 30.01 and 20.00: the imbalance 0.20016 is classified Bullish and
\* returned as 0.2
C12_BullishAtPointTwo ==
    /\ DepthDone
    /\ res.bid_depth = 3001
    /\ res.ask_depth = 2000
    /\ res.imbalance = 200
    /\ res.bias = "Bullish (strong bid depth)"

\* C13: every result of analyze_depth has spread >= 0, for every order book,
\* a crossed book (best bid above best ask) included.
C13_SpreadNonNegative == DepthDone => res.spread >= 0

\* best bid 100.20 above best ask 100.10
C13_CrossedBookNegativeSpread ==
    /\ DepthDone
    /\ args.orderbook.kind = "dict"
    /\ Len(args.orderbook.bids) > 0
    /\ Len(args.orderbook.asks) > 0
    /\ args.orderbook.bids[1][1] = Field(10020)
    /\ args.orderbook.asks[1][1] = Field(10010)
    /\ res.spread = -10

(***************************************************************************)
(* OrderBookAnalyzer.detect_walls                                          *)
(*   threshold_multiplier is in 1/10 (3.0 is 30); a wall's ratio is in     *)
(*   Unit, to the nearest 1/1000                                           *)
(***************************************************************************)

\* orderbook['bids'][:20]
WallLevels == 20

\* bid_walls[:3]
MaxWalls == 3

WallsRecord(bid_walls, ask_walls) ==
    [bid_walls |-> bid_walls, ask_walls |-> ask_walls]

\* the levels of a side carrying a size: if len(level) > 1
WithSize(side) == {i \in 1..Len(side) : Len(side[i]) > 1}

SizeSum(side) ==
    SumRange([i \in 1..Len(side) |-> IF Len(side[i]) > 1 THEN side[i][2].v ELSE 0],
             1, Len(side))

\* size > avg_size * threshold_multiplier, avg_size = sum(sizes) / len(sizes)
IsWall(side, i, threshold_multiplier) ==
    /\ i \in WithSize(side)
    /\ side[i][2].v * Cardinality(WithSize(side)) * 10
           > SizeSum(side) * threshold_multiplier

Indexes(side) == [i \in 1..Len(side) |-> i]

\* walls[:3] of the flagged levels, in book order
FirstWalls(side, flagged) == Take(flagged, MaxWalls)

\* the walls of one side (already cut to 20 levels)
SideWalls(side, threshold_multiplier) ==
    LET flagged == SelectSeq(Indexes(side),
                             LAMBDA i : IsWall(side, i, threshold_multiplier))
        kept == FirstWalls(side, flagged)
    IN  [k \in 1..Len(kept) |->
            [price |-> side[kept[k]][1].v,
             size |-> side[kept[k]][2].v,
             ratio |-> IF SizeSum(side) > 0
                       THEN RoundDiv(side[kept[k]][2].v * Cardinality(WithSize(side)) * Unit,
                                     SizeSum(side))
                       ELSE 0]]

\* float() raises on a size, or on the price of a flagged level
WallsRaise(side, threshold_multiplier) ==
    \/ \E i \in WithSize(side) : ~side[i][2].ok
    \/ \E i \in WithSize(side) :
          IsWall(side, i, threshold_multiplier) /\ ~side[i][1].ok

detect_walls(orderbook, threshold_multiplier) ==
    IF orderbook.kind = "None" THEN WallsRecord(<<>>, <<>>)
    ELSE IF orderbook.kind = "scalar"
    THEN WallsRecord(<<>>, <<>>)         \* TypeError: except -> no walls
    ELSE IF ~orderbook.hasBids \/ ~orderbook.hasAsks
    THEN WallsRecord(<<>>, <<>>)
    ELSE LET bids == Take(orderbook.bids, WallLevels)
             asks == Take(orderbook.asks, WallLevels)
         IN  IF bids = <<>> \/ asks = <<>> THEN WallsRecord(<<>>, <<>>)
             ELSE IF \E i \in WithSize(bids) : ~bids[i][2].ok
             THEN WallsRecord(<<>>, <<>>)            \* ValueError
             ELSE IF \E i \in WithSize(asks) : ~asks[i][2].ok
             THEN WallsRecord(<<>>, <<>>)
             ELSE IF WithSize(bids) = {} \/ WithSize(asks) = {}
             THEN WallsRecord(<<>>, <<>>)
             ELSE IF \/ WallsRaise(bids, threshold_multiplier)
                     \/ WallsRaise(asks, threshold_multiplier)
             THEN WallsRecord(<<>>, <<>>)
             ELSE WallsRecord(SideWalls(bids, threshold_multiplier),
                              SideWalls(asks, threshold_multiplier))

(***************************************************************************)
(* The detect_walls calls the model makes                                  *)
(***************************************************************************)

\* the short sides have up to MaxWallLen levels of any of the sizes
MaxWallLen == 5

WallSizes == {0, 300, 400}

\* a side whose level i has price best + step * (i - 1) and size sizes[i]
SizedSide(best, step, sizes) ==
    [i \in 1..Len(sizes) |-> <<Field(best + step * (i - 1)), Field(sizes[i])>>]

\* a side of n levels: size `first` on the first, `rest` on the others among
\* the top 20, and the field `tail` beyond the 20th
LongSide(n, best, step, first, rest, tail) ==
    [i \in 1..n |->
        <<Field(best + step * (i - 1)),
          IF i = 1 THEN Field(first)
          ELSE IF i <= WallLevels THEN Field(rest)
          ELSE tail>>]

LongSides(best, step) ==
    {LongSide(WallLevels + k, best, step, first, 100, tail) :
        k \in 0..MaxExtraLevels, first \in {100, 5000},
        tail \in {Field(100), Field(5000), BadField}}

WallBidSides ==
    {SizedSide(9990, -1, sizes) : sizes \in SeqsUpTo(WallSizes, MaxWallLen)}
        \cup LongSides(9990, -1)
        \cup {<<<<Field(9990), BadField>>>>,
              <<<<Field(9990)>>>>,
              <<<<BadField, Field(400)>>, <<Field(9989), Field(0)>>>>}

WallAskSides ==
    {SizedSide(10010, 1, sizes) :
        sizes \in {<<>>, <<100>>, <<100, 100, 400>>, <<300, 300, 300, 300, 0>>}}
        \cup LongSides(10010, 1)

WallBooks ==
    {BookNone, BookScalar, BookDict(TRUE, FALSE, <<Level(9990, 100)>>, <<>>)}
        \cup {BookDict(TRUE, TRUE, b, a) : b \in WallBidSides, a \in WallAskSides}

InitWalls ==
    /\ pc = "call"
    /\ fn = "detect_walls"
    /\ args \in [orderbook : WallBooks, threshold_multiplier : {10, 30}]
    /\ res = NoResult

DetectWalls ==
    /\ fn = "detect_walls"
    /\ Return("detect_walls", detect_walls(args.orderbook, args.threshold_multiplier))

NextWalls == DetectWalls

SpecWalls == InitWalls /\ [][NextWalls]_vars

WallsDone == pc = "done" /\ fn = "detect_walls"

\* a book detect_walls works through without an early return or an exception
WallsComputed ==
    /\ args.orderbook.kind = "dict"
    /\ args.orderbook.hasBids /\ args.orderbook.hasAsks
    /\ \A side \in {Take(args.orderbook.bids, 20), Take(args.orderbook.asks, 20)} :
          /\ WithSize(side) # {}
          /\ \A i \in 1..Len(side) : side[i][1].ok /\ (i \in WithSize(side) => side[i][2].ok)

\* the levels among the top 20 of a side whose size exceeds mean * multiplier,
\* as <<price, size>>
Exceeding(side) ==
    LET top == Take(side, 20)
        n == Cardinality(WithSize(top))
    IN  {<<top[i][1].v, top[i][2].v>> : i \in
            {j \in WithSize(top) :
                top[j][2].v * n * 10 > SizeSum(top) * args.threshold_multiplier}}

Returned(walls) == {<<walls[k].price, walls[k].size>> : k \in 1..Len(walls)}

\* the walls returned for a side are the flagged levels, or the 3 largest
\* of them when more than 3 are flagged
LargestWalls(side, walls) ==
    /\ Returned(walls) \subseteq Exceeding(side)
    /\ Cardinality(Exceeding(side)) <= 3 => Returned(walls) = Exceeding(side)
    /\ Cardinality(Exceeding(side)) > 3 =>
          /\ Len(walls) = 3
          /\ \A w \in Returned(walls) : \A e \in Exceeding(side) \ Returned(walls) :
                w[2] >= e[2]

\* C14: detect_walls flags, per side, exactly the levels among the top 20
\* whose size exceeds mean size * threshold_multiplier, and returns the 3
\* with the largest size when more than 3 are flagged.
C14_ThreeLargestWalls ==
    (WallsDone /\ WallsComputed) =>
        /\ LargestWalls(args.orderbook.bids, res.bid_walls)
        /\ LargestWalls(args.orderbook.asks, res.ask_walls)

\* four bids exceed the mean and the largest, the fourth, is not returned
C14_LargestWallDropped ==
    /\ WallsDone
    /\ WallsComputed
    /\ args.threshold_multiplier = 10
    /\ Len(args.orderbook.bids) = 5
    /\ [i \in 1..5 |-> args.orderbook.bids[i][2].v] = <<300, 300, 300, 400, 0>>
    /\ [k \in 1..Len(res.bid_walls) |-> res.bid_walls[k].size] = <<300, 300, 300>>

(***************************************************************************)
(* The is_near_level calls the model makes                                 *)
(***************************************************************************)

\* prices and levels are 0 and 99.00 + k * 0.10 USDT for k in 0 .. MaxNearIdx
MaxNearIdx == 30

NearPrices == {0} \cup {9900 + 10 * k : k \in 0..MaxNearIdx}

\* 0 %, 0.5 %, 1 %, 1.5 % and 2 %
NearTolerances == {0, 50, 100, 150, 200}

InitNear ==
    /\ pc = "call"
    /\ fn = "is_near_level"
    /\ args \in [price : NearPrices, level : NearPrices,
                 tolerance_pct : NearTolerances]
    /\ res = NoResult

IsNearLevel ==
    /\ fn = "is_near_level"
    /\ Return("is_near_level",
              is_near_level(args.price, args.level, args.tolerance_pct))

NextNear == IsNearLevel

SpecNear == InitNear /\ [][NextNear]_vars

NearDone == pc = "done" /\ fn = "is_near_level"

\* C15: is_near_level(price, level, tolerance) is true exactly when
\* |price - level| <= level * tolerance / 100, and false whenever level = 0.
\* (That it is not symmetric in price and level is the state C15_Witness.)
C15_NearWithinPercentOfLevel ==
    NearDone =>
        /\ args.level = 0 => res = FALSE
        /\ args.level # 0 =>
               (res <=> 100 * 100 * Abs(args.price - args.level)
                            <= args.level * args.tolerance_pct)

\* 99.00 is within 1 % of 100.00, but 100.00 is not within 1 % of 99.00
C15_Witness ==
    /\ NearDone
    /\ args = [price |-> 9900, level |-> 10000, tolerance_pct |-> 100]
    /\ res = TRUE
    /\ ~is_near_level(args.level, args.price, args.tolerance_pct)

(***************************************************************************)
(* The is_near_level call sites of the three strategies                    *)
(*   a call is recorded with the level and the third argument it passes,   *)
(*   and with what that argument is in the source: a literal percentage    *)
(*   (1.0, 0.5) or the ATR, a price distance in USDT                       *)
(***************************************************************************)

NearCall(level, tolerance, passes) ==
    [level |-> level, tolerance |-> tolerance, passes |-> passes]

\* get_signal reached its strategy logic
Computed(m, minimum) == m.n > 0 /\ m.wellformed /\ ~TooFewCandles(m.n, minimum)

BtcNearCalls(m) ==
    IF ~Computed(m, BtcMinCandles) THEN {}
    ELSE LET current_price == m.price
             current_ema50 == safe_value(PyFloat(LastEma(m.n, 50, m.ema50)), current_price)
             current_ema200 == safe_value(PyFloat(LastEma(m.n, 200, m.ema200)), current_price)
             current_rsi == safe_value(PyFloat(m.rsi), 50 * Unit)
             current_atr == safe_value(PyFloat(m.atr), RoundDiv(current_price * 2, 100))
             current_vwap == safe_value(PyFloat(m.vwap), current_price)
             pivot_levels == pivot_points(m.prev.high, m.prev.low, m.prev.close)
         IN  IF /\ current_ema50 > current_ema200
                /\ current_price > current_vwap
                /\ current_rsi > 50 * Unit
             THEN {NearCall(pivot_levels.S1, current_atr, "current_atr"),
                   NearCall(pivot_levels.S2, current_atr, "current_atr"),
                   NearCall(m.weekly_low, (current_atr * 3) \div 2, "current_atr * 1.5")}
             ELSE IF /\ current_ema50 < current_ema200
                     /\ current_price < current_vwap
                     /\ current_rsi < 50 * Unit
             THEN {NearCall(pivot_levels.R1, current_atr, "current_atr"),
                   NearCall(pivot_levels.R2, current_atr, "current_atr"),
                   NearCall(m.weekly_high, (current_atr * 3) \div 2, "current_atr * 1.5")}
             ELSE {}

EthNearCalls(m) ==
    IF ~Computed(m, EthMinCandles) THEN {}
    ELSE LET current_price == m.price
             current_bb_upper == safe_value(PyFloat(m.bb_upper),
                                            RoundDiv(current_price * 102, 100))
             current_bb_lower == safe_value(PyFloat(m.bb_lower),
                                            RoundDiv(current_price * 98, 100))
             current_ema20 == safe_value(PyFloat(LastEma(m.n, 20, m.ema20)), current_price)
             current_ema50 == safe_value(PyFloat(LastEma(m.n, 50, m.ema50)), current_price)
             current_macd_hist == safe_value(PyFloat(m.macd_hist), 0)
             pivot_levels == pivot_points(m.last.high, m.last.low, current_price)
         IN  IF /\ current_price <= current_bb_lower
                /\ current_ema20 > current_ema50
                /\ current_macd_hist > 0
             THEN {NearCall(pivot_levels.S1, 100, "1.0")}
             ELSE IF /\ current_price >= current_bb_upper
                     /\ current_ema20 < current_ema50
                     /\ current_macd_hist < 0
             THEN {NearCall(pivot_levels.R1, 100, "1.0")}
             ELSE {}

SolNearCalls(m) ==
    IF ~Computed(m, SolMinCandles) THEN {}
    ELSE LET current_price == m.price
             current_ema9 == safe_value(PyFloat(LastEma(m.n, 9, m.ema9)), current_price)
             current_ema21 == safe_value(PyFloat(LastEma(m.n, 21, m.ema21)), current_price)
             current_stoch_k == safe_value(PyFloat(m.stoch_k), 50 * Unit)
             current_vwap == safe_value(PyFloat(m.vwap), current_price)
             rising == safe_value(PyFloat(m.obv_last), 0)
                           > safe_value(PyFloat(m.obv_third_last), 0)
         IN  IF /\ current_ema9 > current_ema21
                /\ current_stoch_k < 30 * Unit
                /\ current_price > current_vwap
                /\ rising
             THEN {NearCall(m.pd_low, 100, "1.0"), NearCall(current_vwap, 50, "0.5")}
             ELSE IF /\ current_ema9 < current_ema21
                     /\ current_stoch_k > 70 * Unit
                     /\ current_price < current_vwap
                     /\ ~rising
             THEN {NearCall(m.pd_high, 100, "1.0"), NearCall(current_vwap, 50, "0.5")}
             ELSE {}

\* the calls of the get_signal that ran
NearCalls ==
    IF fn = "btc" THEN BtcNearCalls(args.m)
    ELSE IF fn = "eth" THEN EthNearCalls(args.m)
    ELSE SolNearCalls(args.m)

\* third arguments that are percentages
PercentArguments == {"1.0", "0.5"}

\* C16: every is_near_level call of the three strategies passes a percent of
\* the level as its third argument, never a price distance such as the ATR.
C16_ToleranceAlwaysPercent ==
    SignalDone => \A c \in NearCalls : c.passes \in PercentArguments

\* BTC passes an ATR of 2.00 USDT with S1, and is_near_level reads it as
\* 2 % of S1
C16_AtrPassedAsPercent ==
    /\ SignalDone
    /\ fn = "btc"
    /\ res.kind = "Signal"
    /\ args.m.atr = 200
    /\ \E c \in NearCalls :
          /\ c.passes = "current_atr"
          /\ c.tolerance = args.m.atr
          /\ c.level = res.sr_levels.S1
          /\ is_near_level(args.m.price, c.level, c.tolerance)

(***************************************************************************)
(* SRLevels.find_nearest_sr                                                *)
(*   sr_levels is a dict that may hold the lists 'resistance' and          *)
(*   'support' (absent lists read as []) and the keys 'R1' and 'S1'        *)
(***************************************************************************)

SrDict(resistance, support, hasR1, r1, hasS1, s1) ==
    [resistance |-> resistance, support |-> support,
     hasR1 |-> hasR1, R1 |-> r1, hasS1 |-> hasS1, S1 |-> s1]

SeqRange(s) == {s[i] : i \in 1..Len(s)}

SetMin(S) == CHOOSE x \in S : \A y \in S : x <= y

SetMax(S) == CHOOSE x \in S : \A y \in S : x >= y

NearestRecord(nearest_resistance, nearest_support) ==
    [nearest_resistance |-> nearest_resistance, nearest_support |-> nearest_support]

\* the same function comparing with >= and <=
find_nearest_sr_inclusive(price, sr_levels) ==
    LET resistance_above == {r \in SeqRange(sr_levels.resistance) : r >= price}
        support_below == {x \in SeqRange(sr_levels.support) : x <= price}
    IN  NearestRecord(
            IF resistance_above # {} THEN SetMin(resistance_above)
            ELSE IF sr_levels.hasR1 THEN sr_levels.R1
            ELSE RoundDiv(price * 102, 100),
            IF support_below # {} THEN SetMax(support_below)
            ELSE IF sr_levels.hasS1 THEN sr_levels.S1
            ELSE RoundDiv(price * 98, 100))

find_nearest_sr(price, sr_levels) ==
    LET \* resistance_above = [r for r in resistance_levels if r > price]
        resistance_above == {r \in SeqRange(sr_levels.resistance) : r > price}
        \* support_below = [s for s in support_levels if s < price]
        support_below == {x \in SeqRange(sr_levels.support) : x < price}
    IN  NearestRecord(
            IF resistance_above # {} THEN SetMin(resistance_above)
            ELSE IF sr_levels.hasR1 THEN sr_levels.R1      \* sr_levels.get('R1', ...)
            ELSE RoundDiv(price * 102, 100),
            IF support_below # {} THEN SetMax(support_below)
            ELSE IF sr_levels.hasS1 THEN sr_levels.S1
            ELSE RoundDiv(price * 98, 100))

\* the lists hold up to MaxListed levels
MaxListed == 2

ListedLevels == {9900, 10000, 10100, 10200}

SrDicts ==
    {SrDict(r, x, hasR1, r1, hasS1, s1) :
        r \in SeqsUpTo(ListedLevels, MaxListed),
        x \in SeqsUpTo(ListedLevels, MaxListed),
        hasR1 \in BOOLEAN, r1 \in {9950, 10150},
        hasS1 \in BOOLEAN, s1 \in {9850, 10050}}

InitNearest ==
    /\ pc = "call"
    /\ fn = "find_nearest_sr"
    /\ args \in [price : {10000, 10050}, sr_levels : SrDicts]
    /\ res = NoResult

FindNearestSr ==
    /\ fn = "find_nearest_sr"
    /\ Return("find_nearest_sr", find_nearest_sr(args.price, args.sr_levels))

NextNearest == FindNearestSr

SpecNearest == InitNearest /\ [][NextNearest]_vars

NearestDone == pc = "done" /\ fn = "find_nearest_sr"

ListedAbove == {r \in SeqRange(args.sr_levels.resistance) : r > args.price}

ListedBelow == {x \in SeqRange(args.sr_levels.support) : x < args.price}

\* C17 (as stated): the nearest_resistance returned is strictly above price
\* and the nearest_support strictly below: the minimum of the listed
\* resistances above, the maximum of the listed supports below, and the
\* levels' R1 / S1 when no listed level qualifies.
C17_NearestStrictlyAboveAndBelow ==
    NearestDone =>
        /\ res.nearest_resistance > args.price
        /\ res.nearest_support < args.price
        /\ ListedAbove # {} => res.nearest_resistance = SetMin(ListedAbove)
        /\ ListedBelow # {} => res.nearest_support = SetMax(ListedBelow)
        /\ (ListedAbove = {} /\ args.sr_levels.hasR1) =>
               res.nearest_resistance = args.sr_levels.R1
        /\ (ListedBelow = {} /\ args.sr_levels.hasS1) =>
               res.nearest_support = args.sr_levels.S1

\* C17 (amended): when a listed resistance is above price the result is the
\* smallest such, strictly above price, and likewise the largest listed
\* support strictly below; when none qualifies the result is the levels'
\* R1 / S1 whatever its side of price, and price * 1.02 / price * 0.98 when
\* that key is absent.
C17_NearestListedElseR1S1 ==
    NearestDone =>
        /\ ListedAbove # {} =>
               /\ res.nearest_resistance = SetMin(ListedAbove)
               /\ res.nearest_resistance > args.price
        /\ ListedBelow # {} =>
               /\ res.nearest_support = SetMax(ListedBelow)
               /\ res.nearest_support < args.price
        /\ ListedAbove = {} =>
               res.nearest_resistance =
                   IF args.sr_levels.hasR1 THEN args.sr_levels.R1
                   ELSE (args.price * 102) \div 100
        /\ ListedBelow = {} =>
               res.nearest_support =
                   IF args.sr_levels.hasS1 THEN args.sr_levels.S1
                   ELSE (args.price * 98) \div 100

\* a resistance listed at the price itself does not qualify, and the R1
\* returned in its place is below the price
C17_Witness ==
    /\ NearestDone
    /\ args.price = 10000
    /\ args.sr_levels.resistance = <<10000>>
    /\ args.sr_levels.support = <<9900, 10000>>
    /\ args.sr_levels.hasR1
    /\ args.sr_levels.R1 = 9950
    /\ res.nearest_resistance = 9950
    /\ res.nearest_support = 9900

(***************************************************************************)
(* pivot_points: the bands of the except branch                            *)
(***************************************************************************)

\* round(close * k, 2) for k = 1, 1.01, 1.02, 1.03, 0.99, 0.98, 0.97
PivotFallback(close) ==
    IF IsNaN(close)
    THEN PivotRecord(NaN, NaN, NaN, NaN, NaN, NaN, NaN)
    ELSE PivotRecord(close, RoundDiv(close * 101, 100), RoundDiv(close * 102, 100),
                     RoundDiv(close * 103, 100), RoundDiv(close * 99, 100),
                     RoundDiv(close * 98, 100), RoundDiv(close * 97, 100))

PivotLevels == {res.P, res.R1, res.R2, res.R3, res.S1, res.S2, res.S3}

\* C18: when high, low or close is NaN the result is the band set around
\* close (P = close, R1/R2/R3 = close * 1.01/1.02/1.03, S1/S2/S3 = close *
\* 0.99/0.98/0.97), and no returned level is NaN when close is defined.
C18_NaNFallsBackToBands ==
    (PivotDone /\ ~PivotDefined) =>
        /\ res = PivotFallback(args.close)
        /\ ~IsNaN(args.close) => \A v \in PivotLevels : ~IsNaN(v)

\* a NaN high with low and close defined, and every returned level is NaN
C18_NaNHighGivesNaNLevels ==
    /\ PivotDone
    /\ IsNaN(args.high)
    /\ args.low = 4
    /\ args.close = 5
    /\ \A v \in PivotLevels : IsNaN(v)

(***************************************************************************)
(* BTCStrategy.get_signal: the long setup                                  *)
(***************************************************************************)

BtcComputed == SignalDone /\ fn = "btc" /\ Computed(args.m, BtcMinCandles)

\* S1 of the pivot levels of the candle before the last
BtcS1 == pivot_points(args.m.prev.high, args.m.prev.low, args.m.prev.close).S1

\* current_ema50 > current_ema200, current_price > current_vwap,
\* current_rsi > 50 and the price near S1 with current_atr as tolerance
BtcLongSetup ==
    /\ BtcComputed
    /\ args.m.ema50 > args.m.ema200
    /\ args.m.price > args.m.vwap
    /\ args.m.rsi > 50 * Unit
    /\ is_near_level(args.m.price, BtcS1, args.m.atr)

\* C19: with at least 200 candles, EMA50 > EMA200, price > VWAP, RSI > 50
\* and the price within tolerance of pivot S1, the BTC signal has side LONG
\* and confidence >= 0.7; the confidence is 0.8 when the order-book
\* imbalance is above 0.1 and 0.7 otherwise.
C19_LongNearSupport ==
    BtcLongSetup =>
        /\ res.kind = "Signal"
        /\ res.side = "LONG"
        /\ res.confidence >= 70
        /\ res.confidence =
               IF analyze_depth(args.m.orderbook).imbalance > 100 THEN 80 ELSE 70

\* RSI 60 and the price 2 % under S1 = 102.00 with ATR 2.00; the book holds
\* 1.12 on the bid and 0.88 on the ask side
C19_Witness ==
    /\ BtcLongSetup
    /\ args.m.rsi = 60 * Unit
    /\ args.m.atr = 200
    /\ BtcS1 = 10200
    /\ analyze_depth(args.m.orderbook).imbalance = 120
    /\ res.side = "LONG"
    /\ res.confidence = 80

(***************************************************************************)
(* KuCoinClient.get_klines, get_orderbook and the strategies that call     *)
(* them                                                                    *)
(*   pc   : "klines", "orderbook", "signal", "done": the await reached in  *)
(*          get_signal                                                     *)
(*   args : has_keys and the exchange's answer to each of the two requests *)
(*   res  : the klines and the order book fetched, and the signal          *)
(***************************************************************************)

\* what session.get(...) gives: it raises, or answers with a status code,
\* and a body {'code': ..., 'data': ...}; n is len(data), 0 for no data
KlinesResponse(raised, status_code, code, n, wellformed) ==
    [raised |-> raised, status_code |-> status_code, code |-> code,
     n |-> n, wellformed |-> wellformed]

BookResponse(raised, status_code, code, data) ==
    [raised |-> raised, status_code |-> status_code, code |-> code, data |-> data]

\* a list of candles: where it comes from, its length, and whether every
\* row parses
Klines(source, n, wellformed) == [source |-> source, n |-> n, wellformed |-> wellformed]

\* limit rows of str(round(., 2)) around base_price
get_demo_klines(limit) == Klines("demo", limit, TRUE)

get_klines(has_keys, response, limit) ==
    IF ~has_keys THEN get_demo_klines(limit)
    ELSE IF response.raised THEN get_demo_klines(limit)          \* except Exception
    ELSE IF /\ response.status_code = 200
            /\ response.code = "200000"
            /\ response.n > 0                                    \* data.get('data')
         THEN Klines("exchange", response.n, response.wellformed)
    ELSE get_demo_klines(limit)

\* base_prices, in 1/1000 USDT
BasePrice(symbol) ==
    IF symbol = "ETH-USDT" THEN 3000000
    ELSE IF symbol = "SOL-USDT" THEN 120000
    ELSE 45000000

DemoLevels == 20

\* spread_pct = random.uniform(0.0001, 0.0005), in 1/10000
DemoSpreads == {2, 4}

\* bid_size, ask_size = random.uniform(0.1, 10.0) / (1 + i * 0.1): sizes of
\* 1.00 and 3.00 are possible at every one of the 20 levels
DemoSizes == {100, 300}

\* price to the cent of level i (from 0) on a side; sign is -1 for bids
DemoPrice(symbol, spread, sign, i) ==
    LET base_price == BasePrice(symbol)
        half == (base_price * spread) \div 20000
        step == base_price \div 10000
    IN  RoundDiv(base_price + sign * (half + i * step), 10)

get_demo_orderbook(symbol, spread, bid_size, ask_size) ==
    BookDict(TRUE, TRUE,
             [i \in 1..DemoLevels |-> Level(DemoPrice(symbol, spread, -1, i - 1), bid_size)],
             [i \in 1..DemoLevels |-> Level(DemoPrice(symbol, spread, 1, i - 1), ask_size)])

DemoBooks(symbol) ==
    {get_demo_orderbook(symbol, spread, bid_size, ask_size) :
        spread \in DemoSpreads, bid_size \in DemoSizes, ask_size \in DemoSizes}

\* the order books get_orderbook can return
get_orderbook(has_keys, response, symbol) ==
    IF ~has_keys THEN DemoBooks(symbol)
    ELSE IF response.raised THEN DemoBooks(symbol)
    ELSE IF /\ response.status_code = 200
            /\ response.code = "200000"
            /\ response.data.kind = "dict"                       \* data.get('data')
         THEN {response.data}
    ELSE DemoBooks(symbol)

Symbol(f) == IF f = "btc" THEN "BTC-USDT"
             ELSE IF f = "eth" THEN "ETH-USDT"
             ELSE "SOL-USDT"

\* get_klines(self.symbol, timeframe, 200) / (self.symbol, "15min", 100) /
\* (self.symbol, "1min", 100)
KlinesLimit(f) == IF f = "btc" THEN 200 ELSE 100

MinCandlesOf(f) == IF f = "btc" THEN BtcMinCandles
                   ELSE IF f = "eth" THEN EthMinCandles
                   ELSE SolMinCandles

\* the indicator readings of the candles fetched, on the price scale of the
\* snapshots; random demo candles can give any of them
Readings(f) ==
    IF f = "btc"
    THEN {m \in BtcSnapshots :
            /\ m.n = BtcMinCandles /\ m.wellformed /\ m.orderbook = BookNone
            /\ m.atr = 200 /\ m.weekly_low = 9000
            /\ m.prev = Candle(10100, 9900, 10000)}
    ELSE IF f = "eth"
    THEN {m \in EthSnapshots :
            /\ m.n = EthMinCandles /\ m.wellformed /\ m.orderbook = BookNone
            /\ m.macd_hist # 0 /\ m.last = HighLow(10250, 9750)}
    ELSE {m \in SolSnapshots :
            /\ m.n = SolMinCandles /\ m.wellformed /\ m.orderbook = BookNone
            /\ m.obv_last = 500 /\ m.obv_third_last = 0
            /\ m.last = HighLow(10010, 9990)
            /\ m.pd_high = 10500 /\ m.pd_low = 9500}

\* the snapshot get_signal works on, given what the client returned
Fetched(m, klines, orderbook) ==
    [m EXCEPT !.n = klines.n, !.wellformed = klines.wellformed,
              !.orderbook = orderbook]

StrategySignal(f, m) ==
    IF f = "btc" THEN BTCStrategy_get_signal(m, DefaultBalance)
    ELSE IF f = "eth" THEN ETHStrategy_get_signal(m)
    ELSE SOLStrategy_get_signal(m)

KlinesResponses(f) ==
    {KlinesResponse(TRUE, 0, "", 0, TRUE),
     KlinesResponse(FALSE, 500, "", 0, TRUE),
     KlinesResponse(FALSE, 200, "400100", 0, TRUE)}
    \cup {KlinesResponse(FALSE, 200, "200000", n, w) :
             n \in {0, MinCandlesOf(f) - 1, KlinesLimit(f)}, w \in BOOLEAN}

ExchangeBooks ==
    {BookDict(TRUE, TRUE, <<Level(9990, 100)>>, <<Level(10010, 100)>>),
     BookDict(TRUE, TRUE, <<Level(9990, 112)>>, <<Level(10010, 88)>>),
     BookDict(TRUE, TRUE, <<>>, <<>>)}

BookResponses ==
    {BookResponse(TRUE, 0, "", BookNone),
     BookResponse(FALSE, 500, "", BookNone),
     BookResponse(FALSE, 200, "400100", BookNone),
     BookResponse(FALSE, 200, "200000", BookNone)}
    \cup {BookResponse(FALSE, 200, "200000", b) : b \in ExchangeBooks}

InitClient ==
    /\ pc = "klines"
    /\ fn \in {"btc", "eth", "sol"}
    /\ \E has_keys \in BOOLEAN, kr \in KlinesResponses(fn), br \in BookResponses :
           args = [has_keys |-> has_keys, klines_response |-> kr, book_response |-> br]
    /\ res = [klines |-> NoResult, orderbook |-> NoResult, signal |-> NoResult]

\* klines = await self.client.get_klines(...)
ClientGetKlines ==
    /\ pc = "klines"
    /\ res' = [res EXCEPT !.klines =
                   get_klines(args.has_keys, args.klines_response, KlinesLimit(fn))]
    /\ pc' = "orderbook"
    /\ UNCHANGED <<fn, args>>

\* orderbook = await self.client.get_orderbook(self.symbol)
ClientGetOrderbook ==
    /\ pc = "orderbook"
    /\ \E book \in get_orderbook(args.has_keys, args.book_response, Symbol(fn)) :
           res' = [res EXCEPT !.orderbook = book]
    /\ pc' = "signal"
    /\ UNCHANGED <<fn, args>>

\* the rest of get_signal
StrategyGetSignal ==
    /\ pc = "signal"
    /\ \E m \in Readings(fn) :
           res' = [res EXCEPT !.signal =
                       StrategySignal(fn, Fetched(m, res.klines, res.orderbook))]
    /\ pc' = "done"
    /\ UNCHANGED <<fn, args>>

NextClient == ClientGetKlines \/ ClientGetOrderbook \/ StrategyGetSignal

SpecClient == InitClient /\ [][NextClient]_vars

ClientDone == pc = "done" /\ res.signal # NoResult

\* a request was made and it failed: an exception, a status other than 200,
\* or an error code in the body
RequestFailed(response) ==
    /\ args.has_keys
    /\ \/ response.raised
       \/ response.status_code # 200
       \/ response.code # "200000"

\* C20: when the exchange request fails (exception, non-200 status or error
\* code), get_klines returns an empty candle sequence and get_orderbook
\* empty bids and asks, and the strategy asked for a signal reports
\* unavailable.
C20_FailureGivesEmptyAndUnavailable ==
    ClientDone =>
        /\ RequestFailed(args.klines_response) =>
               /\ res.klines.n = 0
               /\ res.signal = Unavailable
        /\ RequestFailed(args.book_response) =>
               /\ res.orderbook.bids = <<>>
               /\ res.orderbook.asks = <<>>

\* both requests raise, and the BTC strategy returns a LONG or SHORT signal
\* computed from 200 demo candles and a demo book of 20 levels a side
C20_SignalFromDemoData ==
    /\ ClientDone
    /\ fn = "btc"
    /\ args.has_keys
    /\ args.klines_response.raised
    /\ args.book_response.raised
    /\ res.klines = Klines("demo", 200, TRUE)
    /\ Len(res.orderbook.bids) = 20
    /\ Len(res.orderbook.asks) = 20
    /\ res.signal.kind = "Signal"
    /\ res.signal.side \in {"LONG", "SHORT"}

(***************************************************************************)
(* CryptoTradingBot.send_all_signals                                       *)
(*   pc   : "edit" (the "Fetching" edit), then the symbol whose strategy   *)
(*          is awaited, then "send", then "done"                           *)
(*   args : what each strategy's get_signal does when awaited, and whether *)
(*          the first edit_message_text raises                             *)
(*   res  : the strategies invoked so far, all_signals, and the message    *)
(***************************************************************************)

\* self.strategies, a dict in insertion order
StrategyOrder == <<"BTC", "ETH", "SOL">>

Symbols == {StrategyOrder[i] : i \in 1..Len(StrategyOrder)}

\* what awaiting strategy.get_signal() can do: return a signal dict, return
\* None, or raise
SignalOutcome(side, entry) == [kind |-> "Signal", side |-> side, entry |-> entry]

RaisedOutcome == [kind |-> "raise"]

SignalOutcomes ==
    {SignalOutcome(side, 10000) : side \in {"LONG", "SHORT", "HOLD"}}
    \cup {Unavailable, RaisedOutcome}

\* the line appended to all_signals for a symbol
SignalLine(symbol, outcome) ==
    IF outcome.kind = "raise" THEN <<symbol, "Error">>                 \* except:
    ELSE IF outcome.kind = "Signal" /\ outcome.side # "HOLD"
         THEN <<symbol, outcome.side, outcome.entry>>
    ELSE <<symbol, "No signal">>

PositionOf(symbol) == CHOOSE i \in 1..Len(StrategyOrder) : StrategyOrder[i] = symbol

\* the same loop with the try around the for: an exception ends the loop
AfterSymbol_abort(symbol, outcome) ==
    IF outcome.kind = "raise" \/ PositionOf(symbol) = Len(StrategyOrder) THEN "send"
    ELSE StrategyOrder[PositionOf(symbol) + 1]

\* where the for loop goes after a symbol; the try is inside the loop body
AfterSymbol(symbol, outcome) ==
    IF PositionOf(symbol) = Len(StrategyOrder) THEN "send"
    ELSE StrategyOrder[PositionOf(symbol) + 1]

ErrorMessage == <<"Error fetching signals.">>

InitAll ==
    /\ pc = "edit"
    /\ fn = "send_all_signals"
    /\ args \in [outcomes : [Symbols -> SignalOutcomes], edit_raises : BOOLEAN]
    /\ res = [invoked |-> <<>>, all_signals |-> <<>>, message |-> <<>>]

\* await query.edit_message_text("Fetching all signals... Please wait.")
EditFetching ==
    /\ pc = "edit"
    /\ IF args.edit_raises
       THEN /\ res' = [res EXCEPT !.message = ErrorMessage]    \* except Exception
            /\ pc' = "done"
       ELSE /\ res' = res
            /\ pc' = StrategyOrder[1]
    /\ UNCHANGED <<fn, args>>

\* one turn of the loop: signal = await strategy.get_signal() and the append
AwaitSignal ==
    /\ pc \in Symbols
    /\ res' = [res EXCEPT !.invoked = Append(@, pc),
                          !.all_signals = Append(@, SignalLine(pc, args.outcomes[pc]))]
    /\ pc' = AfterSymbol(pc, args.outcomes[pc])
    /\ UNCHANGED <<fn, args>>

\* message = header + "\n".join(all_signals), and the final edit
SendAll ==
    /\ pc = "send"
    /\ res' = [res EXCEPT !.message = res.all_signals]
    /\ pc' = "done"
    /\ UNCHANGED <<fn, args>>

NextAll == EditFetching \/ AwaitSignal \/ SendAll

SpecAll == InitAll /\ [][NextAll]_vars

AllDone == pc = "done" /\ fn = "send_all_signals"

\* the line an asset's own outcome calls for
OwnLine(symbol) ==
    LET outcome == args.outcomes[symbol]
    IN  IF outcome.kind = "raise" THEN <<symbol, "Error">>
        ELSE IF outcome.kind = "None" THEN <<symbol, "No signal">>
        ELSE IF outcome.side = "HOLD" THEN <<symbol, "No signal">>
        ELSE <<symbol, outcome.side, outcome.entry>>

\* C21: whatever each asset's outcome (signal, HOLD, unavailable,
\* exception), once the loop is entered the strategies are all invoked
\* once, in the order BTC, ETH, SOL, and the message holds exactly one line
\* per asset, each reflecting that asset's own outcome.
C21_EveryAssetReportedOnce ==
    (AllDone /\ ~args.edit_raises) =>
        /\ res.invoked = <<"BTC", "ETH", "SOL">>
        /\ Len(res.message) = 3
        /\ \A i \in 1..3 : res.message[i] = OwnLine(res.invoked[i])

\* BTC raises, ETH is unavailable, and SOL's LONG is still reported
C21_Witness ==
    /\ AllDone
    /\ ~args.edit_raises
    /\ args.outcomes["BTC"] = RaisedOutcome
    /\ args.outcomes["ETH"] = Unavailable
    /\ args.outcomes["SOL"] = SignalOutcome("LONG", 10000)
    /\ res.message = << <<"BTC", "Error">>, <<"ETH", "No signal">>,
                        <<"SOL", "LONG", 10000>> >>

(***************************************************************************)
(* One get_signal task per strategy on the shared KuCoinClient             *)
(*   pc   : for each task, the await it has reached: "klines",             *)
(*          "orderbook", "signal" or "done"                                *)
(*   args : for each symbol, what the exchange serves for it               *)
(*   res  : the session's request log (shared by the three strategies) and *)
(*          each task's local variables klines, orderbook and its signal   *)
(***************************************************************************)

Tasks == {"btc", "eth", "sol"}

\* the market of one symbol: the candles and book the exchange serves and
\* the indicator readings of those candles
Market(n, reading, orderbook) == [n |-> n, reading |-> reading, orderbook |-> orderbook]

TaskReadings(f) ==
    IF f = "btc"
    THEN {m \in Readings(f) : m.ema50 = 10100 /\ m.vwap = 9950 /\ m.rsi = 60 * Unit}
    ELSE IF f = "eth"
    THEN {m \in Readings(f) : m.price = 9800 /\ m.ema20 = 10050 /\ m.macd_hist = 10}
    ELSE {m \in Readings(f) : m.ema9 = 10010 /\ m.stoch_k = 20 * Unit /\ m.vwap = 9950}

TaskBooks ==
    {BookDict(TRUE, TRUE, <<Level(9990, 100)>>, <<Level(10010, 100)>>),
     BookDict(TRUE, TRUE, <<Level(9990, 200), Level(9980, 100)>>, <<Level(10010, 100)>>)}

Markets(f) ==
    {Market(KlinesLimit(f), m, b) : m \in TaskReadings(f), b \in TaskBooks}

\* params = {'symbol': symbol, ...}: the symbol of a request, given the
\* caller's argument and the requests made so far through the session
\* (this variant takes it from the latest request of the session)
RequestSymbol_shared(symbol, session) ==
    IF session = <<>> THEN symbol ELSE session[Len(session)][1]

RequestSymbol(symbol, session) == symbol

TaskOf(symbol) == CHOOSE t \in Tasks : Symbol(t) = symbol

\* the exchange's answer to a candles request for a symbol: status 200,
\* code '200000' and the symbol's candles
ServedKlines(symbol) ==
    KlinesResponse(FALSE, 200, "200000", args[TaskOf(symbol)].n, TRUE)

ServedBook(symbol) ==
    BookResponse(FALSE, 200, "200000", args[TaskOf(symbol)].orderbook)

InitTasks ==
    /\ pc = [t \in Tasks |-> "klines"]
    /\ fn = "tasks"
    /\ args \in {a \in [Tasks -> UNION {Markets(t) : t \in Tasks}] :
                    \A t \in Tasks : a[t] \in Markets(t)}
    /\ res = [session |-> <<>>,
              task |-> [t \in Tasks |->
                          [klines |-> NoResult, orderbook |-> NoResult,
                           signal |-> NoResult]]]

\* klines = await self.client.get_klines(self.symbol, ...)
TaskGetKlines(t) ==
    /\ pc[t] = "klines"
    /\ LET symbol == RequestSymbol(Symbol(t), res.session)
       IN  res' = [res EXCEPT
                     !.session = Append(@, <<symbol, "candles">>),
                     !.task[t].klines =
                         get_klines(TRUE, ServedKlines(symbol), KlinesLimit(t))]
    /\ pc' = [pc EXCEPT ![t] = "orderbook"]
    /\ UNCHANGED <<fn, args>>

\* orderbook = await self.client.get_orderbook(self.symbol)
TaskGetOrderbook(t) ==
    /\ pc[t] = "orderbook"
    /\ LET symbol == RequestSymbol(Symbol(t), res.session)
       IN  \E book \in get_orderbook(TRUE, ServedBook(symbol), symbol) :
               res' = [res EXCEPT
                         !.session = Append(@, <<symbol, "orderbook">>),
                         !.task[t].orderbook = book]
    /\ pc' = [pc EXCEPT ![t] = "signal"]
    /\ UNCHANGED <<fn, args>>

\* the rest of get_signal, on the task's own klines and orderbook
TaskCompute(t) ==
    /\ pc[t] = "signal"
    /\ res' = [res EXCEPT !.task[t].signal =
                   StrategySignal(t, Fetched(args[t].reading, res.task[t].klines,
                                             res.task[t].orderbook))]
    /\ pc' = [pc EXCEPT ![t] = "done"]
    /\ UNCHANGED <<fn, args>>

NextTasks ==
    \E t \in Tasks : TaskGetKlines(t) \/ TaskGetOrderbook(t) \/ TaskCompute(t)

SpecTasks == InitTasks /\ [][NextTasks]_vars

\* the signal of a strategy run alone on its symbol's candles and book
AloneSignal(t) ==
    StrategySignal(t, Fetched(args[t].reading,
                              Klines("exchange", args[t].n, TRUE),
                              args[t].orderbook))

\* some request of another task lies between the two requests of task t
Interleaved(t) ==
    \E i, j, k \in 1..Len(res.session) :
        /\ i < j /\ j < k
        /\ res.session[i] = <<Symbol(t), "candles">>
        /\ res.session[j][1] # Symbol(t)
        /\ res.session[k] = <<Symbol(t), "orderbook">>

\* C22: with one get_signal task per asset on the shared client, under
\* every interleaving of the tasks' fetch and compute steps each finished
\* task holds the signal its strategy gives alone on the same candles and
\* order book.
C22_InterleavingGivesAloneSignal ==
    fn = "tasks" =>
        \A t \in Tasks : pc[t] = "done" => res.task[t].signal = AloneSignal(t)

\* all three tasks are done, BTC's two requests had ETH's between them, and
\* the two symbols' books differ
C22_Witness ==
    /\ fn = "tasks"
    /\ \A t \in Tasks : pc[t] = "done"
    /\ Interleaved("btc")
    /\ args["btc"].orderbook # args["eth"].orderbook
    /\ res.session[2][1] = "ETH-USDT"
    /\ res.task["btc"].signal.kind = "Signal"
    /\ res.task["btc"].signal = AloneSignal("btc")

(***************************************************************************)
(* Two calls in a row of one function on one input                         *)
(*   pc   : "first", "second", "done"                                      *)
(*   args : the input of both calls                                        *)
(*   res  : the fields of the object called, and the two results           *)
(***************************************************************************)

IndicatorNames == {"ema", "rsi", "macd", "bollinger_bands", "atr", "vwap",
                   "stochastic_rsi", "obv"}

\* the fields of the instance a call is made on: the strategies hold their
\* symbol (BTC also account_balance); TechnicalIndicators has only static
\* methods
Instance(f) ==
    IF f = "btc" THEN [symbol |-> "BTC-USDT", account_balance |-> DefaultBalance]
    ELSE IF f \in {"eth", "sol"} THEN [symbol |-> Symbol(f)]
    ELSE [static |-> TRUE]

\* the candles of the multi-series indicators: closes with highs `up` above
\* and lows `dn` below
Closes == [1..MaxLenMulti -> IndVals]

TwiceArgs(f) ==
    IF f = "btc" THEN [m : BtcSnapshots]
    ELSE IF f = "eth" THEN [m : EthSnapshots]
    ELSE IF f = "sol" THEN [m : SolSnapshots]
    ELSE IF f \in {"ema", "rsi"} THEN [data : SeriesArgs, period : Periods]
    ELSE IF f = "macd"
    THEN [data : SeriesArgs, fast : Periods, slow : Periods, signal : Periods]
    ELSE IF f = "bollinger_bands"
    THEN [data : SeriesArgs, period : Periods, std : {2}, pandas : PandasVersions]
    ELSE IF f = "stochastic_rsi"
    THEN [data : SeriesArgs, period : Periods, k_period : Periods, d_period : Periods]
    ELSE IF f = "atr"
    THEN {[high |-> [i \in 1..n |-> c[i] + up * Unit],
           low |-> [i \in 1..n |-> c[i] - up * Unit],
           close |-> Prefix(c, n), period |-> p, pandas |-> pv] :
             c \in Closes, up \in 0..1, n \in 0..MaxLenMulti, p \in Periods,
             pv \in PandasVersions}
    ELSE IF f = "vwap"
    THEN {[high |-> [i \in 1..n |-> c[i] + up * Unit],
           low |-> [i \in 1..n |-> c[i] - up * Unit],
           close |-> Prefix(c, n), volume |-> Prefix(VolumeSeries(z), n)] :
             c \in Closes, up \in 0..1, n \in 0..MaxLenMulti, z \in 0..MaxLenMulti}
    ELSE {[close |-> Prefix(c, n), volume |-> Prefix(VolumeSeries(z), n)] :
             c \in Closes, n \in 0..MaxLenMulti, z \in 0..MaxLenMulti}

\* the value a call returns, given the instance's fields and the input
Call(f, self, a) ==
    IF f = "btc" THEN BTCStrategy_get_signal(a.m, self.account_balance)
    ELSE IF f = "eth" THEN ETHStrategy_get_signal(a.m)
    ELSE IF f = "sol" THEN SOLStrategy_get_signal(a.m)
    ELSE IF f = "ema" THEN ema(a.data, a.period)
    ELSE IF f = "rsi" THEN rsi(a.data, a.period)
    ELSE IF f = "macd" THEN macd(a.data, a.fast, a.slow, a.signal)
    ELSE IF f = "bollinger_bands"
    THEN bollinger_bands(a.data, a.period, a.std, a.pandas)
    ELSE IF f = "stochastic_rsi"
    THEN stochastic_rsi(a.data, a.period, a.k_period, a.d_period)
    ELSE IF f = "atr" THEN atr(a.high, a.low, a.close, a.period, a.pandas)
    ELSE IF f = "vwap" THEN vwap(a.high, a.low, a.close, a.volume)
    ELSE obv(a.close, a.volume)

\* the same call also charging the position to the account
AfterCall_charged(f, self, result) ==
    IF f = "btc" /\ result.kind = "Signal"
    THEN [self EXCEPT !.account_balance = @ \div 2]
    ELSE self

\* the instance's fields after a call: no function assigns to self
AfterCall(f, self, result) == self

InitTwice ==
    /\ pc = "first"
    /\ fn \in {"btc", "eth", "sol"} \cup IndicatorNames
    /\ args \in TwiceArgs(fn)
    /\ res = [self |-> Instance(fn), first |-> NoResult, second |-> NoResult]

FirstCall ==
    /\ pc = "first"
    /\ LET result == Call(fn, res.self, args)
       IN  res' = [res EXCEPT !.first = result,
                              !.self = AfterCall(fn, res.self, result)]
    /\ pc' = "second"
    /\ UNCHANGED <<fn, args>>

SecondCall ==
    /\ pc = "second"
    /\ LET result == Call(fn, res.self, args)
       IN  res' = [res EXCEPT !.second = result,
                              !.self = AfterCall(fn, res.self, result)]
    /\ pc' = "done"
    /\ UNCHANGED <<fn, args>>

NextTwice == FirstCall \/ SecondCall

SpecTwice == InitTwice /\ [][NextTwice]_vars

TwiceDone == pc = "done" /\ fn \in {"btc", "eth", "sol"} \cup IndicatorNames

ShortInput ==
    IF fn = "ema" THEN Len(args.data) < args.period
    ELSE IF fn = "rsi" THEN Len(args.data) < args.period + 1
    ELSE IF fn = "macd" THEN Len(args.data) < args.slow
    ELSE IF fn = "bollinger_bands" THEN Len(args.data) < args.period
    ELSE IF fn = "atr" THEN Len(args.high) < args.period + 1
    ELSE IF fn = "stochastic_rsi" THEN Len(args.data) < args.period + 1
    ELSE IF fn = "obv" THEN Len(args.close) < 2
    ELSE FALSE

Filled(out, n, v) == Len(out) = n /\ \A i \in 1..n : out[i] = v

\* mean(high - low) of candles with as many highs as lows
MeanRange ==
    RoundDiv(SumRange([i \in 1..Len(args.high) |-> args.high[i] - args.low[i]],
                      1, Len(args.high)),
             Len(args.high))

\* C24: for input shorter than its lookback every indicator returns a
\* sequence of the input's length filled with its neutral value: ema NaN,
\* rsi 50, macd three sequences of zeros, bollinger_bands three copies of
\* the input, atr mean(high - low), stochastic_rsi 50 in both outputs, obv
\* zeros; the empty input included.
C24_ShortInputGivesNeutralValue ==
    (IndicatorDone /\ ShortInput /\ SameLengths) =>
        IF fn = "ema" THEN Filled(res, Len(args.data), NaN)
        ELSE IF fn = "rsi" THEN Filled(res, Len(args.data), 50 * Unit)
        ELSE IF fn = "macd"
        THEN \A out \in Outputs : Filled(out, Len(args.data), 0)
        ELSE IF fn = "bollinger_bands"
        THEN \A out \in Outputs : out = args.data
        ELSE IF fn = "atr"
        THEN /\ Len(res) = Len(args.high)
             /\ Len(args.high) > 0 => Filled(res, Len(args.high), MeanRange)
        ELSE IF fn = "stochastic_rsi"
        THEN \A out \in Outputs : Filled(out, Len(args.data), 50 * Unit)
        ELSE Filled(res, Len(args.close), 0)

\* stochastic_rsi on as many values as its period, for which rsi is 50
\* throughout: the last %K and %D are 0
C24_StochasticOfNeutralRsi ==
    /\ IndicatorDone
    /\ fn = "stochastic_rsi"
    /\ args.data = <<Unit, 2 * Unit>>
    /\ args.period = 2
    /\ args.k_period = 1
    /\ args.d_period = 1
    /\ rsi(args.data, args.period) = <<50 * Unit, 50 * Unit>>
    /\ res.k = <<50 * Unit, 0>>
    /\ res.d = <<50 * Unit, 0>>

(***************************************************************************)
(* The candle each strategy hands to pivot_points                          *)
(***************************************************************************)

\* the candle and its place from the end of the klines: highs[-2], lows[-2],
\* closes[-2] in BTC; highs[-1], lows[-1], closes[-1] in ETH and SOL, where
\* closes[-1] is the current price
PivotCandle(f, m) ==
    IF f = "btc"
    THEN [fromEnd |-> 2, high |-> m.prev.high, low |-> m.prev.low, close |-> m.prev.close]
    ELSE [fromEnd |-> 1, high |-> m.last.high, low |-> m.last.low, close |-> m.price]

PivotsOf(candle) == pivot_points(candle.high, candle.low, candle.close)

\* C25: in all three strategies the pivot levels reported in sr_levels are
\* those of the second-to-last candle, not of the candle whose close is the
\* current price.
C25_PivotsOfPriorCandle ==
    (SignalDone /\ res.kind = "Signal") =>
        /\ PivotCandle(fn, args.m).fromEnd = 2
        /\ res.sr_levels = PivotsOf(PivotCandle(fn, args.m))

\* ETH reports the pivots of the candle that closes at the current price
C25_EthPivotsOfCurrentCandle ==
    /\ SignalDone
    /\ fn = "eth"
    /\ res.kind = "Signal"
    /\ PivotCandle(fn, args.m).fromEnd = 1
    /\ PivotCandle(fn, args.m).close = res.entry
    /\ res.sr_levels = pivot_points(args.m.last.high, args.m.last.low, args.m.price)

(***************************************************************************)
(* Entry, stop and target of a signal                                      *)
(***************************************************************************)

\* the last candle holds its own close: low <= close <= high (BTC's
\* snapshot carries no last candle)
CloseInsideCandle ==
    fn \in {"eth", "sol"} =>
        /\ args.m.last.low <= args.m.price
        /\ args.m.price <= args.m.last.high

\* C26: a LONG signal has stop_loss < entry < take_profit and a SHORT
\* signal take_profit < entry < stop_loss, in all three strategies.
C26_StopAndTargetAroundEntry ==
    (SignalDone /\ res.kind = "Signal" /\ CloseInsideCandle) =>
        /\ res.side = "LONG" =>
               res.stop_loss < res.entry /\ res.entry < res.take_profit
        /\ res.side = "SHORT" =>
               res.take_profit < res.entry /\ res.entry < res.stop_loss

\* ETH goes LONG at 98.00 under a lower band of 99.00, and the stop
\* max(bb_lower * 0.995, price - atr_estimate) = 98.50 lies above the entry
C26_EthLongStopAboveEntry ==
    /\ SignalDone
    /\ fn = "eth"
    /\ CloseInsideCandle
    /\ res.kind = "Signal"
    /\ res.side = "LONG"
    /\ res.branch = "reversion_long"
    /\ res.entry = 9800
    /\ args.m.bb_lower = 9900
    /\ res.stop_loss > res.entry

(***************************************************************************)
(* BTCStrategy.get_signal where no entry condition holds                   *)
(***************************************************************************)

\* 200 candles around a price whose readings meet neither the long nor the
\* short condition: the RSI is 50
IdleSnapshot(price, orderbook) ==
    [n |-> BtcMinCandles, wellformed |-> TRUE, price |-> price,
     ema50 |-> price + 100, ema200 |-> price, rsi |-> 50 * Unit,
     atr |-> 200, vwap |-> price - 50,
     prev |-> Candle(price + 100, price - 100, price),
     weekly_high |-> price + 400, weekly_low |-> price - 400,
     orderbook |-> orderbook]

IdleBooks ==
    {BookNone,
     BookDict(TRUE, TRUE, <<Level(9990, 112)>>, <<Level(10010, 88)>>)}

InitHold ==
    /\ pc = "call"
    /\ fn = "btc"
    /\ \E price \in PriceGrid \ {0}, balance \in Balances, book \in IdleBooks :
           args = [m |-> IdleSnapshot(price, book), balance |-> balance]
    /\ res = NoResult

NextHold == BtcGetSignal

SpecHold == InitHold /\ [][NextHold]_vars

EthCurrent(m) ==
    [price |-> m.price,
     bb_upper |-> IF IsNaN(m.bb_upper) THEN RoundDiv(m.price * 102, 100) ELSE m.bb_upper,
     bb_lower |-> IF IsNaN(m.bb_lower) THEN RoundDiv(m.price * 98, 100) ELSE m.bb_lower,
     ema20 |-> IF m.n < 20 \/ IsNaN(m.ema20) THEN m.price ELSE m.ema20,
     ema50 |-> IF m.n < 50 \/ IsNaN(m.ema50) THEN m.price ELSE m.ema50,
     macd_hist |-> IF IsNaN(m.macd_hist) THEN 0 ELSE m.macd_hist]

\* the conditions of the four branches, in the order of the if / elif chain
EthConditions(c) ==
    << c.price <= c.bb_lower /\ c.ema20 > c.ema50 /\ c.macd_hist > 0,
       c.price >= c.bb_upper /\ c.ema20 < c.ema50 /\ c.macd_hist < 0,
       c.price > c.bb_upper /\ c.ema20 > c.ema50,
       c.price < c.bb_lower /\ c.ema20 < c.ema50 >>

EthBranchNames ==
    <<"reversion_long", "reversion_short", "breakout_long", "breakout_short">>

EthDone == SignalDone /\ fn = "eth" /\ res.kind = "Signal"

\* C28: ETH tries its four entry branches in a fixed order and the first
\* whose condition holds wins; the side is LONG or SHORT only when the
\* price is at or outside a Bollinger band and EMA20 differs from EMA50,
\* and HOLD for a price strictly between the bands or EMA20 = EMA50.
C28_EntryOnlyAtBandsFirstMatch ==
    EthDone =>
        LET c == EthCurrent(args.m)
            cond == EthConditions(c)
        IN  /\ res.side \in {"LONG", "SHORT"} =>
                /\ c.price <= c.bb_lower \/ c.price >= c.bb_upper
                /\ c.ema20 # c.ema50
            /\ (c.bb_lower < c.price /\ c.price < c.bb_upper) => res.side = "HOLD"
            /\ c.ema20 = c.ema50 => res.side = "HOLD"
            /\ \A i \in 1..4 :
                   res.branch = EthBranchNames[i] =>
                       cond[i] /\ \A j \in 1..(i - 1) : ~cond[j]

\* at the upper band with EMA20 = EMA50 = 100.00 the side is HOLD
C28_Witness ==
    /\ EthDone
    /\ args.m.n >= 50
    /\ args.m.price = 10200
    /\ args.m.bb_upper = 10100
    /\ args.m.ema20 = 10000
    /\ args.m.ema50 = 10000
    /\ res.side = "HOLD"
    /\ res.branch = "none"

(***************************************************************************)
(* SOLStrategy.get_signal: the entry conditions                            *)
(***************************************************************************)

SolDone == SignalDone /\ fn = "sol" /\ res.kind = "Signal"

\* obv[-1] > obv[-3]
ObvRising == args.m.obv_last > args.m.obv_third_last

SolLongSetup ==
    /\ args.m.ema9 > args.m.ema21
    /\ args.m.stoch_k < 30 * Unit
    /\ args.m.price > args.m.vwap
    /\ ObvRising

SolShortSetup ==
    /\ args.m.ema9 < args.m.ema21
    /\ args.m.stoch_k > 70 * Unit
    /\ args.m.price < args.m.vwap
    /\ ~ObvRising

\* C29: SOL's pivots are those of the candle that closes at the current
\* price, so for a candle with low <= close <= high and high > low the
\* price is above S1 and below R1 and the support/resistance check vetoes
\* nothing: the side is LONG exactly when EMA9 > EMA21, %K < 30, price >
\* VWAP and OBV rises, SHORT exactly when EMA9 < EMA21, %K > 70, price <
\* VWAP and OBV does not rise.
C29_SupportCheckNeverVetoes ==
    (SolDone /\ CloseInsideCandle /\ args.m.last.high > args.m.last.low) =>
        /\ res.entry > res.sr_levels.S1 * 10
        /\ res.entry < res.sr_levels.R1 * 10
        /\ res.side = "LONG" <=> SolLongSetup
        /\ res.side = "SHORT" <=> SolShortSetup

\* a LONG at 100.00 that is neither near the previous-day low 95.00 nor
\* within 0.5 % of the VWAP 99.50: price > S1 alone lets it through
C29_Witness ==
    /\ SolDone
    /\ CloseInsideCandle
    /\ args.m.last = HighLow(10010, 9990)
    /\ SolLongSetup
    /\ args.m.pd_low = 9500
    /\ args.m.vwap = 9950
    /\ ~is_near_level(args.m.price, args.m.pd_low, 100)
    /\ ~is_near_level(args.m.price, args.m.vwap, 50)
    /\ res.sr_levels.S1 = 9990
    /\ res.side = "LONG"

(***************************************************************************)
(* obv and the obv_trend SOL reads from it                                 *)
(***************************************************************************)

\* closes and volumes have 0 .. MaxObvLen values
MaxObvLen == 4

ObvCloses == {Unit, 2 * Unit, 3 * Unit}

ObvVolumes == {0, 1, 2}

InitObv ==
    /\ pc = "call"
    /\ fn = "obv_trend"
    /\ \E n \in 0..MaxObvLen :
         \E c \in [1..n -> ObvCloses], v \in [1..n -> ObvVolumes] :
           args = [close |-> c, volume |-> v]
    /\ res = NoResult

\* obv = self.indicators.obv(closes, volumes), then obv_trend
ObvTrendCall ==
    /\ pc = "call"
    /\ fn = "obv_trend"
    /\ LET series == obv(args.close, args.volume)
           n == Len(series)
       IN  res' = [obv |-> series,
                   obv_trend |-> IF n >= 3
                                 THEN ObvTrend(n, series[n], series[n - 2])
                                 ELSE ObvTrend(n, 0, 0)]
    /\ pc' = "done"
    /\ UNCHANGED <<fn, args>>

NextObv == ObvTrendCall

SpecObv == InitObv /\ [][NextObv]_vars

ObvDone == pc = "done" /\ fn = "obv_trend"

\* the move of OBV at candle i: +volume, -volume or 0 as the close rose,
\* fell or stayed
ObvMove(i) ==
    IF args.close[i] > args.close[i - 1] THEN args.volume[i]
    ELSE IF args.close[i] < args.close[i - 1] THEN 0 - args.volume[i]
    ELSE 0

\* C30: obv_trend is "rising" exactly when the last OBV value is strictly
\* greater than the one two candles earlier and "falling" otherwise, an
\* unchanged OBV included; OBV starts at 0 and moves at each candle by
\* +volume, -volume or 0 as the close rose, fell or stayed.
C30_ObvTrendStrictlyRising ==
    ObvDone =>
        LET n == Len(res.obv)
        IN  /\ n = Len(args.close)
            /\ n >= 1 => res.obv[1] = 0
            /\ \A i \in 2..n : res.obv[i] = res.obv[i - 1] + ObvMove(i)
            /\ res.obv_trend \in {"rising", "falling"}
            /\ res.obv_trend = "rising" <=> (n >= 3 /\ res.obv[n] > res.obv[n - 2])
            /\ (n >= 3 /\ res.obv[n] = res.obv[n - 2]) => res.obv_trend = "falling"

\* the close rose and fell back on equal volume: OBV is where it was two
\* candles earlier, and the trend is "falling"
C30_Witness ==
    /\ ObvDone
    /\ args.close = <<Unit, 2 * Unit, Unit>>
    /\ args.volume = <<1, 2, 2>>
    /\ res.obv = <<0, 2, 0>>
    /\ res.obv_trend = "falling"

=============================================================================
